---- MODULE Spec2Model ----
(***************************************************************************)
(* Model of the tracking and matching engine of src/main.py: the filter    *)
(* predicates, the per-(user, chat) polling tasks, and the per-user match  *)
(* store (user_matched_tokens, user_match_history).                        *)
(*                                                                         *)
(* Python strings are sequences of one-character strings.  Python None is  *)
(* NoneVal, and a key that a dict does not have is Missing.                *)
(***************************************************************************)
EXTENDS Integers, Sequences, FiniteSets, TLC

(***************************************************************************)
(* Strings                                                                 *)
(***************************************************************************)
NoneVal == <<"<None>">>
Missing == <<"<missing>">>

UpperChars == <<"A","B","C","D","E","F","G","H","I","J","K","L","M",
                "N","O","P","Q","R","S","T","U","V","W","X","Y","Z">>
LowerChars == <<"a","b","c","d","e","f","g","h","i","j","k","l","m",
                "n","o","p","q","r","s","t","u","v","w","x","y","z">>
DigitChars == <<"0","1","2","3","4","5","6","7","8","9">>

\* str.lower() on one character
LowerChar(c) ==
    IF \E i \in 1..Len(UpperChars) : UpperChars[i] = c
    THEN LowerChars[CHOOSE i \in 1..Len(UpperChars) : UpperChars[i] = c]
    ELSE c

\* str.lower()
Lower(s) == [i \in 1..Len(s) |-> LowerChar(s[i])]

\* s[i:] with a 1-based i
DropTo(s, i) == IF i > Len(s) THEN <<>> ELSE SubSeq(s, i, Len(s))

\* s.startswith(p)
StartsWith(s, p) == Len(p) <= Len(s) /\ SubSeq(s, 1, Len(p)) = p

\* the Python operator "p in s" on strings
Contains(s, p) ==
    \E i \in 1..(Len(s) - Len(p) + 1) : SubSeq(s, i, i + Len(p) - 1) = p

\* dict.get(key, default): the default replaces a key the dict does not have
Get(v, default) == IF v = Missing THEN default ELSE v

\* truthiness of a str-or-None value
Truthy(v) == v # NoneVal /\ v # Missing /\ v # <<>>

\* str.isdigit()
IsDigit(c) == \E i \in 1..Len(DigitChars) : DigitChars[i] = c
IsDigits(s) == Len(s) > 0 /\ \A i \in 1..Len(s) : IsDigit(s[i])

DigitVal(c) == (CHOOSE i \in 1..Len(DigitChars) : DigitChars[i] = c) - 1

RECURSIVE DigitsVal(_)
DigitsVal(s) ==
    IF Len(s) = 0 THEN 0
    ELSE 10 * DigitsVal(SubSeq(s, 1, Len(s) - 1)) + DigitVal(s[Len(s)])

\* int(s) succeeds: an optional sign followed by decimal digits
IsInt(s) ==
    \/ IsDigits(s)
    \/ Len(s) > 1 /\ s[1] \in {"+", "-"} /\ IsDigits(DropTo(s, 2))

\* int(s), for a string on which int() succeeds
IntOf(s) ==
    IF IsDigits(s) THEN DigitsVal(s)
    ELSE IF s[1] = "-" THEN 0 - DigitsVal(DropTo(s, 2))
    ELSE DigitsVal(DropTo(s, 2))

(***************************************************************************)
(* normalize_twitter_handle                                                *)
(***************************************************************************)
TwitterCom == <<"t","w","i","t","t","e","r",".","c","o","m","/">>
XCom       == <<"x",".","c","o","m","/">>
HashBang   == <<"#","!","/">>

\* the characters the class [^/?\s] excludes
HandleStop(c) == c \in {"/", "?", " ", "\t", "\n", "\r", "\f"}

\* the longest run of [^/?\s] at the start of s
RECURSIVE HandleRun(_)
HandleRun(s) ==
    IF Len(s) = 0 \/ HandleStop(s[1]) THEN <<>>
    ELSE <<s[1]>> \o HandleRun(DropTo(s, 2))

\* the host alternative (twitter\.com|x\.com)\/ matches s at position p
HostAt(s, p) ==
    IF StartsWith(DropTo(s, p), TwitterCom) THEN Len(TwitterCom)
    ELSE IF StartsWith(DropTo(s, p), XCom) THEN Len(XCom)
    ELSE 0

\* the rest of the pattern, (?:#!\/)?@?([^/?\s]+), can match r
TailMatches(r) == Len(r) > 0 /\ ~HandleStop(r[1])

\* group 1 of @?([^/?\s]+) on r: the "@" is taken when a handle follows it
AtGroup(r) ==
    IF StartsWith(r, <<"@">>) /\ TailMatches(DropTo(r, 2))
    THEN HandleRun(DropTo(r, 2))
    ELSE HandleRun(r)

\* group 1 of (?:#!\/)?@?([^/?\s]+) on r: "#!/" is taken when the rest
\* still matches after it
TailGroup(r) ==
    IF StartsWith(r, HashBang) /\ TailMatches(DropTo(r, 4))
    THEN AtGroup(DropTo(r, 4))
    ELSE AtGroup(r)

\* positions at which re.search can place the host part of the pattern
HostPositions(s) ==
    {p \in 1..Len(s) : HostAt(s, p) > 0 /\ TailMatches(DropTo(s, p + HostAt(s, p)))}

\* group 1 of the first match of the pattern in normalized, or normalized
\* itself when re.search finds none; ps are the positions of the host part
AfterUrl(normalized, ps) ==
    IF ps = {} THEN normalized
    ELSE TailGroup(DropTo(normalized,
                          (CHOOSE q \in ps : \A o \in ps : q <= o)
                          + HostAt(normalized, CHOOSE q \in ps : \A o \in ps : q <= o)))

\* variant of StripAt: a leading @ is kept
KeepAt(normalized) == normalized

\* "if normalized.startswith('@'): normalized = normalized[1:]"
StripAt(normalized) ==
    IF StartsWith(normalized, <<"@">>) THEN DropTo(normalized, 2) ELSE normalized

\* the handle from "normalized = handle.lower()" on
NormalizeLowered(normalized) == StripAt(AfterUrl(normalized, HostPositions(normalized)))

normalize_twitter_handle(handle) ==
    IF ~Truthy(handle) THEN <<>> ELSE NormalizeLowered(Lower(handle))

(***************************************************************************)
(* normalize_url                                                           *)
(***************************************************************************)
Http  == <<"h","t","t","p",":","/","/">>
Https == <<"h","t","t","p","s",":","/","/">>
Www   == <<"w","w","w",".">>

\* str.rstrip('/')
RECURSIVE RStripSlash(_)
RStripSlash(s) ==
    IF Len(s) > 0 /\ s[Len(s)] = "/" THEN RStripSlash(SubSeq(s, 1, Len(s) - 1))
    ELSE s

\* the optional group ^(https?:\/\/)? of the pattern, removed
StripScheme(url) ==
    IF StartsWith(url, Https) THEN DropTo(url, Len(Https) + 1)
    ELSE IF StartsWith(url, Http) THEN DropTo(url, Len(Http) + 1)
    ELSE url

\* the optional group (www\.)? that follows it, removed
StripWww(url) == IF StartsWith(url, Www) THEN DropTo(url, Len(Www) + 1) ELSE url

normalize_url(url) ==
    IF ~Truthy(url) THEN <<>> ELSE RStripSlash(StripWww(StripScheme(Lower(url))))

(***************************************************************************)
(* are_filters_equal                                                       *)
(***************************************************************************)
are_filters_equal(filter1, filter2) ==
    IF filter1.type # filter2.type THEN FALSE
    ELSE IF filter1.type = "twitter"
      THEN normalize_twitter_handle(filter1.value) = normalize_twitter_handle(filter2.value)
    ELSE IF filter1.type = "website"
      THEN normalize_url(filter1.value) = normalize_url(filter2.value)
    ELSE IF filter1.type \in {"token", "wallet"}
      THEN Lower(filter1.value) = Lower(filter2.value)
    ELSE IF filter1.type = "believe"
      THEN IF IsInt(filter1.value) /\ IsInt(filter2.value)
           THEN IntOf(filter1.value) = IntOf(filter2.value)
           ELSE filter1.value = filter2.value
    ELSE filter1.value = filter2.value

(***************************************************************************)
(* Users, chats and the bounds of the model                                *)
(***************************************************************************)
Users == {"u1"}
Chats == {"c1", "c2"}

\* bounds
MaxBatch == 2
MaxBelieve == 1
MaxFilters == 2
MaxHistory == 2
\* the length of the filter lists RemoveFilter is tried on
MaxListed == 3

(***************************************************************************)
(* The tokens the feeds return and the filters users enter                 *)
(***************************************************************************)
\* a token as fetch_latest_tokens builds it (no 'source' key)
SolanaToken(address, name, symbol) ==
    [address |-> address, name |-> name, symbol |-> symbol,
     deployer |-> <<>>, creator |-> <<>>, website |-> <<>>, twitter |-> <<>>,
     twitterUsername |-> <<>>, source |-> "none"]

\* a token as fetch_believe_tokens builds it
BelieveToken(address, name, symbol) ==
    [address |-> address, name |-> name, symbol |-> symbol,
     deployer |-> Missing, creator |-> Missing, website |-> <<>>, twitter |-> <<>>,
     twitterUsername |-> Missing, source |-> "believe"]

TokA1 == SolanaToken(<<"A","1">>, <<"P","u","m","p","y">>, <<"P","U","M","P">>)
TokA2 == SolanaToken(<<"A","2">>, <<"E","x">>, <<"X">>)
TokB1 == BelieveToken(<<"B","1">>, <<"B","e","l">>, <<"B","E","L">>)
\* coin_name is null in the upstream record
TokB2 == BelieveToken(<<"B","2">>, NoneVal, <<"P","U","M","P","2">>)
\* ca_address is not in the upstream record: token.get('ca_address', '')
TokB3 == BelieveToken(<<>>, <<"B","e","l","3">>, <<"B","L","3">>)

\* MOCK_TOKENS, the placeholder list of fetch_latest_tokens
MockToken(address, name, symbol) ==
    [address |-> address, name |-> name, symbol |-> symbol,
     deployer |-> <<"m","d">>, creator |-> <<"m","c">>, website |-> <<"m",".","i","o">>,
     twitter |-> <<"@","m">>, twitterUsername |-> Missing, source |-> "none"]
MOCK_TOKENS ==
    << MockToken(<<"m","o","c","k","1">>, <<"M","o","c","k"," ","1">>, <<"M","O","C","K","1">>),
       MockToken(<<"m","o","c","k","2">>, <<"M","o","c","k"," ","2">>, <<"M","O","C","K","2">>) >>
get_mock_tokens == MOCK_TOKENS

PrimaryTokens == {TokA1, TokA2}
BelieveTokens == {TokB1, TokB2}

SeqsUpTo(S, n) == UNION {[1..k -> S] : k \in 0..n}

\* what one call of fetch_latest_tokens can return: never an empty list
PrimaryBatches == SeqsUpTo(PrimaryTokens, MaxBatch) \ {<<>>}
\* the primary feed returning one token
SingleBatches == {<<token>> : token \in PrimaryTokens}
\* the signal feed returning nothing, or the record whose coin_name is null
NullNameBatches == {<<>>, <<TokB2>>}
\* what one call of fetch_believe_tokens can return
BelieveBatches == SeqsUpTo(BelieveTokens, MaxBelieve)
\* the signal feed returning nothing, or the record without a ca_address
NoAddressBatches == {<<>>, <<TokB3>>}

Filter(type, value) == [type |-> type, value |-> value]
FTok  == Filter("token", <<"p","u","m","p">>)
FBel  == Filter("believe", <<"0">>)
FilterInputs == {FTok, FBel}

\* filters a user can enter in several forms
FTokUpper  == Filter("token", <<"P","U","M","P">>)
FBelPadded == Filter("believe", <<"0","0">>)
FTwAt      == Filter("twitter", <<"@","F","o","o">>)
FTwBare    == Filter("twitter", <<"f","o","o">>)
FTwUrl     == Filter("twitter", <<"h","t","t","p","s",":","/","/","x",".","c","o","m","/","f","o","o">>)
FTwBar     == Filter("twitter", <<"b","a","r">>)
FWebUrl    == Filter("website", <<"h","t","t","p","s",":","/","/","w","w","w",".","e","x",".","i","o","/">>)
FWebBare   == Filter("website", <<"e","x",".","i","o">>)
FWal       == Filter("wallet", <<"w","1">>)
FWalUpper  == Filter("wallet", <<"W","1">>)
FilterForms == {FTok, FTokUpper, FBel, FBelPadded, FTwAt, FTwBare, FTwUrl, FTwBar,
                FWebUrl, FWebBare, FWal, FWalUpper}

\* believe filters with two thresholds
FBelHigh == Filter("believe", <<"1","0","0">>)
ThresholdFilters == {FBel, FBelHigh}

\* tokens of the primary feed that carry a website, a twitter handle and a
\* deployer, in two spellings
TokW1 == [SolanaToken(<<"W","1">>, <<"W","e","b">>, <<"W","E","B">>) EXCEPT
             !.website = <<"e","x",".","i","o">>, !.twitter = <<"f","o","o">>,
             !.deployer = <<"W","1">>]
TokW2 == [SolanaToken(<<"W","2">>, <<"W","e","b","2">>, <<"W","B","2">>) EXCEPT
             !.website = <<"h","t","t","p","s",":","/","/","w","w","w",".","e","x",".","i","o","/">>,
             !.twitter = <<"@","F","o","o">>]
LinkedTokens == {TokW1, TokW2}

(***************************************************************************)
(* check_token_match                                                       *)
(***************************************************************************)
\* Solana addresses are long: a token filter longer than this is an address
AddressLen == 30

\* the twitter branch, on the normalized filter value and token fields
TwitterOutcome(filter_handle, token_twitter, token_username) ==
    IF token_twitter # <<>> /\ Contains(token_twitter, filter_handle) THEN "match"
    ELSE IF token_username # <<>> /\ Contains(token_username, filter_handle) THEN "match"
    ELSE "no"

\* the website branch: token.get('website', '').lower() raises on None
WebsiteOutcome(value, website) ==
    IF website = NoneVal THEN "raise"
    ELSE IF website # <<>> /\ Contains(Lower(website), value) THEN "match"
    ELSE "no"

\* the token branch: name, symbol and address are lowered first
TokenOutcome(value, name, symbol, address) ==
    IF name = NoneVal \/ symbol = NoneVal \/ address = NoneVal THEN "raise"
    ELSE IF Len(value) > AddressLen THEN
        IF Lower(address) = value THEN "match" ELSE "no"
    ELSE IF Contains(Lower(name), value) THEN "match"
    ELSE IF Contains(Lower(symbol), value) THEN "match"
    ELSE "no"

\* the wallet branch
WalletOutcome(value, deployer, creator) ==
    IF deployer = NoneVal \/ creator = NoneVal THEN "raise"
    ELSE IF Lower(deployer) = value THEN "match"
    ELSE IF Lower(creator) = value THEN "match"
    ELSE "no"

\* the body of the loop of check_token_match with value = filter_obj.value.lower()
TestValue(token, type, value) ==
    IF type = "believe" THEN
        IF token.source = "believe" THEN "match" ELSE "no"
    ELSE IF type = "twitter" THEN
        TwitterOutcome(normalize_twitter_handle(value),
                       normalize_twitter_handle(Get(token.twitter, <<>>)),
                       normalize_twitter_handle(Get(token.twitterUsername, <<>>)))
    ELSE IF type = "website" THEN WebsiteOutcome(value, Get(token.website, <<>>))
    ELSE IF type = "token" THEN
        TokenOutcome(value, Get(token.name, <<>>), Get(token.symbol, <<>>),
                     Get(token.address, <<>>))
    ELSE IF type = "wallet" THEN
        WalletOutcome(value, Get(token.deployer, <<>>), Get(token.creator, <<>>))
    ELSE "no"

\* the outcome of testing one filter: "match", "no", or "raise" when
\* .lower() is called on a None field
TestFilter(token, filter_obj) ==
    TestValue(token, filter_obj.type, Lower(filter_obj.value))

\* TestFilter on the tokens and filters above, computed once
FilterOutcomes ==
    {<<token, filter_obj, TestFilter(token, filter_obj)>> :
        token \in PrimaryTokens \cup BelieveTokens \cup {TokB3} \cup LinkedTokens
                     \cup {MOCK_TOKENS[i] : i \in 1..Len(MOCK_TOKENS)},
        filter_obj \in FilterInputs \cup FilterForms \cup ThresholdFilters}
FilterOutcome(token, filter_obj) ==
    (CHOOSE p \in FilterOutcomes : p[1] = token /\ p[2] = filter_obj)[3]

NoMatch == [kind |-> "none"]
Raised  == [kind |-> "raise"]

\* the loop of check_token_match from filter index i on; MatchStep is one
\* iteration, on the outcome of its filter
RECURSIVE MatchFrom(_, _, _)
MatchStep(token, filters, i, outcome) ==
    IF outcome = "raise" THEN Raised
    ELSE IF outcome = "match" THEN [kind |-> "match", filter |-> filters[i], index |-> i]
    ELSE MatchFrom(token, filters, i + 1)

MatchFrom(token, filters, i) ==
    IF i > Len(filters) THEN NoMatch
    ELSE MatchStep(token, filters, i, FilterOutcome(token, filters[i]))

check_token_match(token, filters) ==
    IF Len(filters) = 0 THEN NoMatch ELSE MatchFrom(token, filters, 1)

(***************************************************************************)
(* State                                                                   *)
(***************************************************************************)
VARIABLES
    user_filters,         \* dict user_id -> list of filters
    user_matched_tokens,  \* dict user_id -> list of tokens
    user_match_history,   \* dict user_id -> list of MatchHistoryEntry
    disk,                 \* the files save_user_data writes, one dict per kind
    polling_tasks,        \* dict tracking_key -> index of the task in tasks
    tasks,                \* dict task identity -> the asyncio task
    clock,                \* int(datetime.now().timestamp() * 1000)
    token_cache,          \* dict key -> {data, timestamp, expiresAt}
    last_fetch_time,      \* ms, 0 before the first fetch that is recorded
    cached_response,      \* None or the list of the last fetch that is recorded
    believe_token_cache,  \* dict cache_key -> list of tokens
    last_believe_fetch_time,
    calls,                \* dict caller -> frame of its fetch_* call in progress
    last_request,         \* the live request a non-forced fetch_latest_tokens issued last
    believe_fetched       \* dict cache_key -> "now" of its last live fetch that succeeded

\* the state of the two source clients
fetch_vars == <<clock, token_cache, last_fetch_time, cached_response,
                believe_token_cache, last_believe_fetch_time, calls,
                last_request, believe_fetched>>

vars == <<user_filters, user_matched_tokens, user_match_history, disk,
          polling_tasks, tasks, clock, token_cache, last_fetch_time, cached_response,
          believe_token_cache, last_believe_fetch_time, calls,
          last_request, believe_fetched>>

\* d[k] = v on a dict
Put(d, k, v) == [x \in DOMAIN d \cup {k} |-> IF x = k THEN v ELSE d[x]]
\* d.get(k, [])
GetList(d, k) == IF k \in DOMAIN d THEN d[k] ELSE <<>>
EmptyDict == [x \in {} |-> <<>>]
\* d.get(k, 0)
GetCount(d, k) == IF k \in DOMAIN d THEN d[k] ELSE 0

\* variant of get_tracking_key: the key leaves the chat out
UserKey(user_id, chat_id) == <<user_id>>

get_tracking_key(user_id, chat_id) == <<user_id, chat_id>>

Entry(token, filter_obj) == [token |-> token, filter |-> filter_obj]

\* save_user_data: every kind the user has in memory is written out
save_user_data(d, user_id, uf, um, uh) ==
    [filters |-> IF user_id \in DOMAIN uf THEN Put(d.filters, user_id, uf[user_id])
                 ELSE d.filters,
     matched |-> IF user_id \in DOMAIN um THEN Put(d.matched, user_id, um[user_id])
                 ELSE d.matched,
     history |-> IF user_id \in DOMAIN uh THEN Put(d.history, user_id, uh[user_id])
                 ELSE d.history]

\* Task.done()
Done(task) == task.pc = "done"
\* variant of Live: a key that has a task, done or not
Held(key) == key \in DOMAIN polling_tasks

Live(key) == key \in DOMAIN polling_tasks /\ ~Done(tasks[polling_tasks[key]])
TaskIds == DOMAIN tasks
\* the session is in its polling loop
Running(task) == task.pc \in {"created", "announce", "primary", "believe", "send", "sleep"}

\* the clock when the process starts, in ms: the epoch is far back, so the
\* first fetch is later than every rate limit after last_fetch_time = 0
StartTime == 100000

\* a value that is None or a list: None, and the list data
Nothing == [has |-> FALSE, data |-> <<>>]
Some(data) == [has |-> TRUE, data |-> data]
\* "if cached:" on such a value
TruthyList(v) == v.has /\ v.data # <<>>

\* the module globals of the source clients
FetchInit ==
    /\ clock = StartTime
    /\ token_cache = EmptyDict
    /\ last_fetch_time = 0
    /\ cached_response = Nothing
    /\ believe_token_cache = EmptyDict
    /\ last_believe_fetch_time = 0
    /\ calls = EmptyDict
    /\ last_request = [at |-> 0, by |-> "", attempt |-> 0]
    /\ believe_fetched = EmptyDict

Init ==
    /\ user_filters = EmptyDict
    /\ user_matched_tokens = EmptyDict
    /\ user_match_history = EmptyDict
    /\ disk = [filters |-> EmptyDict, matched |-> EmptyDict, history |-> EmptyDict]
    /\ polling_tasks = EmptyDict
    /\ tasks = EmptyDict
    /\ FetchInit

(***************************************************************************)
(* The match store: the loop body of tracking_task / tracking_task_callback *)
(* and process_new_tokens                                                  *)
(***************************************************************************)
HasAddress(token) == token.address # Missing

\* variant of SeenInChat: the per-chat set is never consulted
NeverSeenInChat(token, seen) == FALSE

\* 'address' in token and token['address'] in chat_matched_tokens[tracking_key]
SeenInChat(token, seen) == HasAddress(token) /\ token.address \in seen

\* variant of is_new_globally: the scan of the matched tokens is skipped
AlwaysNewGlobally(token, matched) == TRUE

\* the scan of user_matched_tokens[user_id] for the token's address
is_new_globally(token, matched) ==
    ~\E i \in 1..Len(matched) :
        HasAddress(matched[i]) /\ HasAddress(token) /\ matched[i].address = token.address

\* chat_matched_tokens[tracking_key].add(token['address'])
MarkSeen(token, seen) == IF HasAddress(token) THEN seen \cup {token.address} ELSE seen

\* the body of "if match_result:" of the polling loop: the token is appended
\* to the matched tokens and the history, and saved, when it is new globally
TrackMatch(st, user_id, token, filter_obj, um1, uh1, new) ==
    [um |-> IF new THEN Put(um1, user_id, Append(um1[user_id], token)) ELSE um1,
     uh |-> IF new THEN Put(uh1, user_id, Append(uh1[user_id], Entry(token, filter_obj)))
            ELSE st.uh,
     d |-> IF new
           THEN save_user_data(st.d, user_id, user_filters,
                               Put(um1, user_id, Append(um1[user_id], token)),
                               Put(uh1, user_id, Append(uh1[user_id], Entry(token, filter_obj))))
           ELSE st.d,
     seen |-> MarkSeen(token, st.seen),
     matches |-> Append(st.matches, Entry(token, filter_obj)),
     raised |-> FALSE]

\* what the polling loop does with the result r of check_token_match
TrackResult(st, user_id, token, r) ==
    IF r.kind = "raise" THEN [st EXCEPT !.raised = TRUE]
    ELSE IF r.kind = "none" THEN st
    ELSE TrackMatch(st, user_id, token, r.filter,
                    IF user_id \in DOMAIN st.um THEN st.um ELSE Put(st.um, user_id, <<>>),
                    IF user_id \in DOMAIN st.uh THEN st.uh ELSE Put(st.uh, user_id, <<>>),
                    is_new_globally(token, GetList(st.um, user_id)))

\* one iteration of "for token in all_tokens" of the polling loop, on the
\* loop state st = [um, uh, d, seen, matches, raised]
TrackOne(st, user_id, filters, token) ==
    IF SeenInChat(token, st.seen) THEN st
    ELSE TrackResult(st, user_id, token, check_token_match(token, filters))

\* "for token in all_tokens" from index i on; an exception ends the loop
RECURSIVE TrackFrom(_, _, _, _, _)
TrackFrom(st, user_id, filters, all_tokens, i) ==
    IF i > Len(all_tokens) \/ st.raised THEN st
    ELSE TrackFrom(TrackOne(st, user_id, filters, all_tokens[i]),
                   user_id, filters, all_tokens, i + 1)

\* the whole matching section of one tick for a task with the given seen set
TrackTokens(user_id, seen, all_tokens) ==
    TrackFrom([um |-> user_matched_tokens, uh |-> user_match_history, d |-> disk,
               seen |-> seen, matches |-> <<>>, raised |-> FALSE],
              user_id, GetList(user_filters, user_id), all_tokens, 1)

\* existing_addresses of process_new_tokens, computed once before its loop
ExistingAddresses(matched) ==
    {matched[i].address : i \in {j \in 1..Len(matched) : HasAddress(matched[j])}}

\* 'address' in token and token['address'] in existing_addresses
AlreadyMatched(token, existing_addresses) ==
    HasAddress(token) /\ token.address \in existing_addresses

\* variant of RefreshResult: a match is appended to the matched tokens only
RefreshResultNoHistory(st, user_id, token, r, uh1) ==
    IF r.kind = "raise" THEN [st EXCEPT !.raised = TRUE]
    ELSE IF r.kind = "none" THEN st
    ELSE [um |-> Put(st.um, user_id, Append(st.um[user_id], token)),
          uh |-> st.uh,
          new_matches |-> Append(st.new_matches, Entry(token, r.filter)),
          raised |-> FALSE]

\* variant of RefreshResult: the record is put in front of the history
RefreshResultFront(st, user_id, token, r, uh1) ==
    IF r.kind = "raise" THEN [st EXCEPT !.raised = TRUE]
    ELSE IF r.kind = "none" THEN st
    ELSE [um |-> Put(st.um, user_id, Append(st.um[user_id], token)),
          uh |-> Put(uh1, user_id, <<Entry(token, r.filter)>> \o uh1[user_id]),
          new_matches |-> Append(st.new_matches, Entry(token, r.filter)),
          raised |-> FALSE]

\* what process_new_tokens does with the result r of check_token_match
RefreshResult(st, user_id, token, r, uh1) ==
    IF r.kind = "raise" THEN [st EXCEPT !.raised = TRUE]
    ELSE IF r.kind = "none" THEN st
    ELSE [um |-> Put(st.um, user_id, Append(st.um[user_id], token)),
          uh |-> Put(uh1, user_id, Append(uh1[user_id], Entry(token, r.filter))),
          new_matches |-> Append(st.new_matches, Entry(token, r.filter)),
          raised |-> FALSE]

\* one iteration of the loop of process_new_tokens, on the loop state
\* st = [um, uh, new_matches, raised]
RefreshOne(st, user_id, filters, existing_addresses, token) ==
    IF AlreadyMatched(token, existing_addresses) THEN st
    ELSE RefreshResult(st, user_id, token, check_token_match(token, filters),
                       IF user_id \in DOMAIN st.uh THEN st.uh
                       ELSE Put(st.uh, user_id, <<>>))

RECURSIVE RefreshFrom(_, _, _, _, _, _)
RefreshFrom(st, user_id, filters, existing_addresses, tokens, i) ==
    IF i > Len(tokens) \/ st.raised THEN st
    ELSE RefreshFrom(RefreshOne(st, user_id, filters, existing_addresses, tokens[i]),
                     user_id, filters, existing_addresses, tokens, i + 1)

\* process_new_tokens(user_id, tokens), past its early return
process_new_tokens(user_id, tokens) ==
    RefreshFrom([um |-> IF user_id \in DOMAIN user_matched_tokens THEN user_matched_tokens
                        ELSE Put(user_matched_tokens, user_id, <<>>),
                 uh |-> user_match_history,
                 new_matches |-> <<>>, raised |-> FALSE],
                user_id, user_filters[user_id],
                ExistingAddresses(GetList(user_matched_tokens, user_id)), tokens, 1)

(***************************************************************************)
(* Front-end requests.  A request that is refused changes nothing; what it *)
(* answers is the value of its *_result operator in the state it runs in.  *)
(***************************************************************************)
\* load_user_data: each kind comes from its file, or is [] without a file
load_user_data(d, user_id) ==
    /\ user_filters' = Put(user_filters, user_id, GetList(d.filters, user_id))
    /\ user_matched_tokens' = Put(user_matched_tokens, user_id, GetList(d.matched, user_id))
    /\ user_match_history' = Put(user_match_history, user_id, GetList(d.history, user_id))

\* /start
start_command(user_id) ==
    /\ user_id \notin DOMAIN user_filters
    /\ load_user_data(disk, user_id)
    /\ UNCHANGED <<disk, polling_tasks, tasks>>

\* variant of IsDuplicate: the new filter is compared as it was entered
IsSameFilter(filters, new_filter) ==
    \E i \in 1..Len(filters) : filters[i] = new_filter

\* the duplicate scan of add_filter_command, handle_filter_input and the
\* quick_add_* buttons
IsDuplicate(filters, new_filter) ==
    \E i \in 1..Len(filters) : are_filters_equal(filters[i], new_filter)

add_filter_result(user_id, new_filter) ==
    IF IsDuplicate(GetList(user_filters, user_id), new_filter)
    THEN "DuplicateFilter" ELSE "Ack"

\* AddFilter: add_filter_command, handle_filter_input, quick_add_* buttons
add_filter(user_id, new_filter) ==
    LET uf1 == IF user_id \in DOMAIN user_filters THEN user_filters
               ELSE Put(user_filters, user_id, <<>>)
    IN
    IF add_filter_result(user_id, new_filter) = "DuplicateFilter"
    THEN UNCHANGED vars
    ELSE /\ Len(uf1[user_id]) < MaxFilters
         /\ user_filters' = Put(uf1, user_id, Append(uf1[user_id], new_filter))
         /\ disk' = save_user_data(disk, user_id, user_filters',
                                   user_matched_tokens, user_match_history)
         /\ UNCHANGED <<user_matched_tokens, user_match_history, polling_tasks, tasks>>

\* variant of Pop: the last element is removed whatever the index
PopLast(list, index) == SubSeq(list, 1, Len(list) - 1)

\* list.pop(index) with a 0-based index
Pop(list, index) ==
    SubSeq(list, 1, index) \o SubSeq(list, index + 2, Len(list))

remove_filter_result(user_id, index) ==
    IF user_id \notin DOMAIN user_filters \/ index < 0
       \/ index >= Len(GetList(user_filters, user_id))
    THEN "IndexOutOfRange" ELSE "Ack"

\* RemoveFilter: remove_filter_command (after its 1-based to 0-based
\* conversion) and the remove_filter_<index> button
remove_filter(user_id, index) ==
    IF remove_filter_result(user_id, index) = "IndexOutOfRange"
    THEN UNCHANGED vars
    ELSE /\ user_filters' = Put(user_filters, user_id, Pop(user_filters[user_id], index))
         /\ disk' = save_user_data(disk, user_id, user_filters',
                                   user_matched_tokens, user_match_history)
         /\ UNCHANGED <<user_matched_tokens, user_match_history, polling_tasks, tasks>>

\* the coroutine object handed to asyncio.create_task: nothing of its body
\* has run yet
NewTask(user_id, chat_id) ==
    [user |-> user_id, chat |-> chat_id,
     pc |-> "created", cancel |-> FALSE, seen |-> {},
     believe_filters |-> <<>>, other_filters |-> <<>>, bidx |-> 0,
     all_tokens |-> <<>>, msgs |-> <<>>, notified |-> EmptyDict, errors |-> 0]

\* a coroutine that has ended: its frame is gone, what it sent remains
Finished(task) ==
    [NewTask(task.user, task.chat) EXCEPT !.pc = "done", !.errors = task.errors]

\* variant of HasNoFilters: an empty filter list passes
NoFilterList(user_id) == user_id \notin DOMAIN user_filters

\* "user_id not in user_filters or not user_filters[user_id]"
HasNoFilters(user_id) ==
    user_id \notin DOMAIN user_filters \/ user_filters[user_id] = <<>>

\* variant of AlreadyRunning: the running task is not looked up
NeverRunning(tracking_key) == FALSE

\* "tracking_key in polling_tasks and not polling_tasks[tracking_key].done()"
AlreadyRunning(tracking_key) == Live(tracking_key)

start_tracking_result(user_id, chat_id) ==
    IF HasNoFilters(user_id) THEN "NoFilters"
    ELSE IF AlreadyRunning(get_tracking_key(user_id, chat_id)) THEN "AlreadyTracking"
    ELSE "Ack"

\* a task object that nothing refers to any more is garbage once it is done
Referenced(pt, id) == \E k \in DOMAIN pt : pt[k] = id
Collect(ts, pt) ==
    LET keep == {id \in DOMAIN ts : Referenced(pt, id) \/ ts[id].pc # "done"}
    IN  [id \in keep |-> ts[id]]

\* the identity of a new task object
FreshId == CHOOSE id \in 1..(Cardinality(DOMAIN tasks) + 1) : id \notin DOMAIN tasks

\* StartTracking: start_tracking_command and start_tracking_callback
start_tracking(user_id, chat_id) ==
    LET tracking_key == get_tracking_key(user_id, chat_id) IN
    IF start_tracking_result(user_id, chat_id) # "Ack"
    THEN UNCHANGED vars
    ELSE /\ polling_tasks' = Put(polling_tasks, tracking_key, FreshId)
         /\ tasks' = Collect(Put(tasks, FreshId, NewTask(user_id, chat_id)), polling_tasks')
         /\ UNCHANGED <<user_filters, user_matched_tokens, user_match_history, disk>>

stop_tracking_result(user_id, chat_id) ==
    IF Live(get_tracking_key(user_id, chat_id)) THEN "Ack" ELSE "NotTracking"

\* StopTracking: stop_tracking_command and stop_tracking_callback.
\* Task.cancel() makes the next step of the task raise CancelledError at the
\* await it is suspended in.
stop_tracking(user_id, chat_id) ==
    LET tracking_key == get_tracking_key(user_id, chat_id) IN
    IF stop_tracking_result(user_id, chat_id) = "NotTracking"
    THEN UNCHANGED vars
    ELSE /\ tasks' = [tasks EXCEPT ![polling_tasks[tracking_key]].cancel = TRUE]
         /\ UNCHANGED <<user_filters, user_matched_tokens, user_match_history, disk,
                        polling_tasks>>

IsBelieve(filter_obj) == filter_obj.type = "believe"
IsOther(filter_obj) == filter_obj.type # "believe"

\* variant of RefreshCommit: the sessions of the user take the addresses
\* of the new matches as seen
RefreshCommitMarksSeen(user_id, st) ==
    /\ Len(GetList(st.uh, user_id)) <= MaxHistory
    /\ user_matched_tokens' = st.um
    /\ user_match_history' = st.uh
    /\ disk' = IF ~st.raised /\ st.new_matches # <<>>
               THEN save_user_data(disk, user_id, user_filters, st.um, st.uh)
               ELSE disk
    /\ tasks' = [t \in TaskIds |->
                    IF tasks[t].user = user_id
                    THEN [tasks[t] EXCEPT !.seen =
                             @ \cup {st.new_matches[i].token.address :
                                        i \in 1..Len(st.new_matches)}]
                    ELSE tasks[t]]
    /\ UNCHANGED <<user_filters, polling_tasks>>

\* the stores after process_new_tokens ended in the loop state st: an
\* exception leaves what the loop had appended and skips the save
RefreshCommit(user_id, st) ==
    /\ Len(GetList(st.uh, user_id)) <= MaxHistory
    /\ user_matched_tokens' = st.um
    /\ user_match_history' = st.uh
    /\ disk' = IF ~st.raised /\ st.new_matches # <<>>
               THEN save_user_data(disk, user_id, user_filters, st.um, st.uh)
               ELSE disk
    /\ UNCHANGED <<user_filters, polling_tasks, tasks>>

\* what refresh_command and refresh_callback do with the candidates they
\* fetched
Refresh(user_id, tokens) ==
    IF tokens = <<>> \/ HasNoFilters(user_id)
    THEN UNCHANGED vars
    ELSE RefreshCommit(user_id, process_new_tokens(user_id, tokens))

\* ManualRefresh by /refresh: the candidates are the primary feed's
refresh_command(user_id, solana_tokens) == Refresh(user_id, solana_tokens)

\* the believe fetches of refresh_callback: one per believe filter whose
\* value int() accepts, each returning believe_tokens
RECURSIVE ExtendBelieve(_, _, _, _)
ExtendBelieve(all_tokens, filters, believe_tokens, i) ==
    IF i > Len(filters) THEN all_tokens
    ELSE ExtendBelieve(IF IsBelieve(filters[i]) /\ IsInt(filters[i].value)
                       THEN all_tokens \o believe_tokens ELSE all_tokens,
                       filters, believe_tokens, i + 1)

\* ManualRefresh by the refresh button: the primary feed if there is a
\* non-believe filter, then the signal feed for the believe filters
refresh_callback(user_id, solana_tokens, believe_tokens) ==
    LET filters == GetList(user_filters, user_id)
        other_filters == SelectSeq(filters, IsOther)
    IN  Refresh(user_id,
                ExtendBelieve(IF other_filters # <<>> THEN solana_tokens ELSE <<>>,
                              filters, believe_tokens, 1))

\* the filter clear_matches records for a token: the first filter that
\* matches it alone, or a generated token filter; Raised when the test raises
RECURSIVE ClearFilterFrom(_, _, _)
ClearFilterStep(token, filters, i, r) ==
    IF r.kind = "raise" THEN Raised
    ELSE IF r.kind = "match" THEN [kind |-> "match", filter |-> filters[i]]
    ELSE ClearFilterFrom(token, filters, i + 1)

ClearFilterFrom(token, filters, i) ==
    IF i > Len(filters)
    THEN [kind |-> "match",
          filter |-> Filter("token",
                            IF token.symbol # Missing THEN token.symbol
                            ELSE IF token.name # Missing THEN token.name
                            ELSE <<"U","n","k","n","o","w","n">>)]
    ELSE ClearFilterStep(token, filters, i, check_token_match(token, <<filters[i]>>))

\* existing_addresses of clear_matches, computed once before its loop
HistoryAddresses(history) ==
    {history[i].token.address :
        i \in {j \in 1..Len(history) : HasAddress(history[j].token)}}

\* the history entry for a token, on the filter r found for it
FoldResult(st, token, r) ==
    IF r.kind = "raise" THEN [st EXCEPT !.raised = TRUE]
    ELSE [st EXCEPT !.history = Append(@, Entry(token, r.filter))]

\* one iteration of the loop of clear_matches, on the loop state
\* st = [history, raised]
FoldOne(st, token, filters, existing_addresses) ==
    IF ~HasAddress(token) \/ token.address \notin existing_addresses
    THEN FoldResult(st, token, ClearFilterFrom(token, filters, 1))
    ELSE st

RECURSIVE FoldFrom(_, _, _, _, _)
FoldFrom(st, matched, filters, existing_addresses, i) ==
    IF i > Len(matched) \/ st.raised THEN st
    ELSE FoldFrom(FoldOne(st, matched[i], filters, existing_addresses),
                  matched, filters, existing_addresses, i + 1)

clear_matches_result(user_id) ==
    IF user_id \notin DOMAIN user_matched_tokens \/ user_matched_tokens[user_id] = <<>>
    THEN "NothingToClear" ELSE "Ack"

\* variant of ClearCommit: the addresses the sessions of the user have seen
\* are forgotten with the matched tokens
ClearCommitForgets(user_id, st) ==
    /\ Len(st.history) <= MaxHistory
    /\ user_match_history' = Put(user_match_history, user_id, st.history)
    /\ user_matched_tokens' = IF st.raised THEN user_matched_tokens
                              ELSE Put(user_matched_tokens, user_id, <<>>)
    /\ disk' = IF st.raised THEN disk
               ELSE save_user_data(disk, user_id, user_filters,
                                   user_matched_tokens', user_match_history')
    /\ tasks' = [t \in TaskIds |->
                    IF tasks[t].user = user_id /\ ~st.raised
                    THEN [tasks[t] EXCEPT !.seen = {}] ELSE tasks[t]]
    /\ UNCHANGED <<user_filters, polling_tasks>>

\* the stores after the loop of clear_matches ended in the loop state st:
\* an exception skips the clearing and the save
ClearCommit(user_id, st) ==
    /\ Len(st.history) <= MaxHistory
    /\ user_match_history' = Put(user_match_history, user_id, st.history)
    /\ user_matched_tokens' = IF st.raised THEN user_matched_tokens
                              ELSE Put(user_matched_tokens, user_id, <<>>)
    /\ disk' = IF st.raised THEN disk
               ELSE save_user_data(disk, user_id, user_filters,
                                   user_matched_tokens', user_match_history')
    /\ UNCHANGED <<user_filters, polling_tasks, tasks>>

\* ClearMatches: clear_matches_command and clear_matches_callback
clear_matches(user_id) ==
    IF clear_matches_result(user_id) = "NothingToClear"
    THEN UNCHANGED vars
    ELSE ClearCommit(user_id,
                     FoldFrom([history |-> GetList(user_match_history, user_id),
                               raised |-> FALSE],
                              user_matched_tokens[user_id],
                              GetList(user_filters, user_id),
                              HistoryAddresses(GetList(user_match_history, user_id)), 1))

(***************************************************************************)
(* The polling task: tracking_task / tracking_task_callback                *)
(*                                                                         *)
(* A step of a task runs from the await it is suspended in to the next     *)
(* await: asyncio runs one coroutine at a time and switches only there.    *)
(* pc names the await:  created (not started), announce (the initial       *)
(* send_message of tracking_task), primary (fetch_latest_tokens), believe  *)
(* (fetch_believe_tokens for believe_filters[bidx]), send (the tick's      *)
(* notification), sleep, faulted (an exception is propagating to the       *)
(* handler of the task; no other coroutine runs before the handler),       *)
(* error_send (the send_message of the handler), done.                     *)
(***************************************************************************)
\* "Categorize filters by type", run once before the while loop
Categorize(task) ==
    [task EXCEPT !.believe_filters = SelectSeq(GetList(user_filters, task.user), IsBelieve),
                 !.other_filters = SelectSeq(GetList(user_filters, task.user), IsOther)]

\* the first believe filter at index >= from whose int(value) does not raise
\* (the others are skipped inside the try), or 0
NextBelieve(task, from) ==
    LET ok == {i \in from..Len(task.believe_filters) : IsInt(task.believe_filters[i].value)}
    IN  IF ok = {} THEN 0 ELSE CHOOSE i \in ok : \A j \in ok : i <= j

\* the pc after the matching section
AfterMatching(st) ==
    IF st.raised THEN "faulted" ELSE IF st.matches # <<>> THEN "send" ELSE "sleep"

\* variant of Notify: one message per match
NotifyEach(matches) == [i \in 1..Len(matches) |-> <<matches[i].token.address>>]

\* "if matches:" builds one message for the whole batch: the messages the
\* tick sends, each the addresses it lists
Notify(matches) ==
    IF matches # <<>>
    THEN << [i \in 1..Len(matches) |-> matches[i].token.address] >>
    ELSE <<>>

\* how often the messages list the address
RECURSIVE Listed(_, _)
Listed(msgs, address) ==
    IF msgs = <<>> THEN 0
    ELSE Cardinality({i \in 1..Len(Head(msgs)) : Head(msgs)[i] = address})
         + Listed(Tail(msgs), address)

\* the addresses the messages list
Addresses(msgs) == UNION {{msgs[k][i] : i \in 1..Len(msgs[k])} : k \in 1..Len(msgs)}

\* the count, per address, of the notifications of the session that listed
\* it, after it sends msgs
Record(notified, msgs) ==
    [address \in DOMAIN notified \cup Addresses(msgs) |->
        GetCount(notified, address) + Listed(msgs, address)]

\* the end of the matching section in the loop state st: the task suspends
\* in the send, the sleep, or the exception handler
FinishTick(t, task, st) ==
    /\ Len(GetList(st.uh, task.user)) <= MaxHistory
    /\ tasks' = [tasks EXCEPT ![t] =
           [task EXCEPT !.pc = AfterMatching(st), !.bidx = 0, !.seen = st.seen,
                        !.all_tokens = <<>>,
                        !.msgs = IF st.raised THEN <<>> ELSE Notify(st.matches),
                        !.notified = IF st.raised THEN @
                                     ELSE Record(@, Notify(st.matches))]]
    /\ user_matched_tokens' = st.um
    /\ user_match_history' = st.uh
    /\ disk' = st.d

\* the task suspends in the fetch for believe filter j, or runs the
\* matching section when there is none left (j = 0)
FetchOrMatch(t, task, j) ==
    IF j > 0
    THEN /\ tasks' = [tasks EXCEPT ![t] = [task EXCEPT !.pc = "believe", !.bidx = j]]
         /\ UNCHANGED <<user_matched_tokens, user_match_history, disk>>
    ELSE FinishTick(t, task, TrackTokens(task.user, task.seen, task.all_tokens))

\* the rest of a tick once the believe fetches before index from are done
ContinueTick(t, task, from) == FetchOrMatch(t, task, NextBelieve(task, from))

\* "while True:" up to the first await of the tick
LoopTop(t, task) ==
    IF task.other_filters # <<>>
    THEN /\ tasks' = [tasks EXCEPT ![t] = [task EXCEPT !.pc = "primary", !.all_tokens = <<>>]]
         /\ UNCHANGED <<user_matched_tokens, user_match_history, disk>>
    ELSE ContinueTick(t, [task EXCEPT !.all_tokens = <<>>], 1)

\* variant of Runnable: a pending cancellation waits for the sleep
RunnableCancelled(t, pc) == tasks[t].pc = pc

Runnable(t, pc) == tasks[t].pc = pc /\ ~tasks[t].cancel

\* tracking_task starts running: it suspends in its initial send_message
TaskBegin(t) ==
    /\ Runnable(t, "created")
    /\ tasks' = [tasks EXCEPT ![t].pc = "announce"]
    /\ UNCHANGED <<user_filters, user_matched_tokens, user_match_history, disk,
                   polling_tasks>>

\* tracking_task_callback starts running (it sends no initial message), or
\* the initial send_message of tracking_task returns
EnterLoop(t) ==
    /\ Runnable(t, "created") \/ Runnable(t, "announce")
    /\ LoopTop(t, Categorize(tasks[t]))
    /\ UNCHANGED <<user_filters, polling_tasks>>

\* fetch_latest_tokens(force_refresh=True) returns solana_tokens
FetchPrimaryReturn(t, solana_tokens) ==
    /\ Runnable(t, "primary")
    /\ ContinueTick(t, [tasks[t] EXCEPT !.all_tokens = @ \o solana_tokens], 1)
    /\ UNCHANGED <<user_filters, polling_tasks>>

\* fetch_believe_tokens(min_followers, force_refresh=True) returns believe_tokens
FetchBelieveReturn(t, believe_tokens) ==
    /\ Runnable(t, "believe")
    /\ ContinueTick(t, [tasks[t] EXCEPT !.all_tokens = @ \o believe_tokens],
                    tasks[t].bidx + 1)
    /\ UNCHANGED <<user_filters, polling_tasks>>

\* the send_message of the tick's notification returns
SendDone(t) ==
    /\ Runnable(t, "send")
    /\ tasks' = [tasks EXCEPT ![t].pc = "sleep", ![t].msgs = <<>>]
    /\ UNCHANGED <<user_filters, user_matched_tokens, user_match_history, disk,
                   polling_tasks>>

\* a send_message of the polling body raises (the initial message or the
\* tick's notification)
SendFails(t) ==
    /\ Runnable(t, "announce") \/ Runnable(t, "send")
    /\ tasks' = [tasks EXCEPT ![t].pc = "faulted", ![t].msgs = <<>>]
    /\ UNCHANGED <<user_filters, user_matched_tokens, user_match_history, disk,
                   polling_tasks>>

\* asyncio.sleep(polling_interval) returns and the next tick begins
SleepReturn(t) ==
    /\ Runnable(t, "sleep")
    /\ LoopTop(t, tasks[t])
    /\ UNCHANGED <<user_filters, polling_tasks>>

\* variant of HandlerPc: the handler resumes the loop
HandlerResumes(task) == "sleep"

\* where the handler "except Exception" leaves the task: awaiting the send of
\* its error notification
HandlerPc(task) == "error_send"

\* "except Exception as e": one error notification to the chat of the task
ExceptHandler(t) ==
    /\ tasks[t].pc = "faulted"
    /\ tasks' = [tasks EXCEPT ![t].pc = HandlerPc(tasks[t]), ![t].errors = @ + 1]
    /\ UNCHANGED <<user_filters, user_matched_tokens, user_match_history, disk,
                   polling_tasks>>

\* the send_message of the handler returns or raises: the coroutine ends
ErrorSendDone(t) ==
    /\ Runnable(t, "error_send")
    /\ tasks' = [tasks EXCEPT ![t] = Finished(@)]
    /\ UNCHANGED <<user_filters, user_matched_tokens, user_match_history, disk,
                   polling_tasks>>

\* the awaits at which a pending cancellation is delivered
CancelPoints == {"created", "announce", "primary", "believe", "send", "sleep", "error_send"}

\* CancelledError is raised at the await the task is suspended in;
\* "except asyncio.CancelledError: pass" ends the coroutine
Cancelled(t) ==
    /\ tasks[t].cancel
    /\ tasks[t].pc \in CancelPoints
    /\ tasks' = [tasks EXCEPT ![t] = Finished(@)]
    /\ UNCHANGED <<user_filters, user_matched_tokens, user_match_history, disk,
                   polling_tasks>>

(***************************************************************************)
(* The source clients: cache_data / get_cached_data, fetch_with_retry,     *)
(* fetch_latest_tokens and fetch_believe_tokens                            *)
(*                                                                         *)
(* A call runs from one await to the next in one step.  Its frame in calls *)
(* has pc request (awaiting the HTTP response), sleep (the backoff of      *)
(* fetch_with_retry) or done (it has returned: result is the list, path    *)
(* names the return statement).  Times are in ms.                          *)
(***************************************************************************)
rate_limit == 1500
believe_rate_limit == 4000
ttl_minutes == 30
max_retries == 3
LatestKey == "latest-tokens"

\* f"believe-{min_followers}"
cache_key(min_followers) == <<"believe", min_followers>>

\* cache_data(key, data) at the time now
cache_data(cache, key, data, now) ==
    Put(cache, key, [data |-> data, timestamp |-> now,
                     expiresAt |-> now + ttl_minutes * 60 * 1000])

\* variant of get_cached_data: the entry is still returned at expiresAt
get_cached_data_late(cache, key, now) ==
    IF key \in DOMAIN cache /\ now <= cache[key].expiresAt
    THEN Some(cache[key].data) ELSE Nothing

\* get_cached_data(key) at the time now
get_cached_data(cache, key, now) ==
    IF key \in DOMAIN cache /\ now < cache[key].expiresAt
    THEN Some(cache[key].data) ELSE Nothing

\* --- the payloads of the primary feed -------------------------------------
\* an entry of the payload: valid says what is_valid_token_data answers, the
\* fields are those of its 'token' property (Missing: no such key)
RawItem(valid, mint, name, symbol) ==
    [valid |-> valid, mint |-> mint, name |-> name, symbol |-> symbol]
RawA1 == RawItem(TRUE, TokA1.address, TokA1.name, TokA1.symbol)
RawA2 == RawItem(TRUE, TokA2.address, TokA2.name, TokA2.symbol)
\* an entry without mint, address or tokenAddress
RawNoAddress == RawItem(TRUE, Missing, <<"N","o">>, <<"N","O">>)
\* an entry that is not a dict
RawJunk == RawItem(FALSE, Missing, Missing, Missing)

\* response.json(): a list of entries, null, or a number
ListPayload(items) == [kind |-> "list", items |-> items]
NullPayload == [kind |-> "null", items |-> <<>>]
ScalarPayload == [kind |-> "scalar", items |-> <<>>]
LatestPayloads == {ListPayload(<<RawA1>>), ListPayload(<<RawJunk, RawA2>>),
                   ListPayload(<<RawNoAddress>>), NullPayload, ScalarPayload}

is_valid_token_data(item) == item.valid

\* extract_value(obj, key, ''): the default replaces a missing key and None
extract_value(v) == IF v = Missing \/ v = NoneVal THEN <<>> ELSE v

\* processed_token of one entry
ProcessedToken(item) ==
    SolanaToken(extract_value(item.mint), extract_value(item.name),
                extract_value(item.symbol))

\* the entries that are valid and whose token has an address
Kept(item) == is_valid_token_data(item) /\ ProcessedToken(item).address # <<>>

\* processed_tokens after the loop over data
ProcessedTokens(items) ==
    [i \in 1..Len(SelectSeq(items, Kept)) |-> ProcessedToken(SelectSeq(items, Kept)[i])]

\* --- the payloads of the signal feed --------------------------------------
\* a record of the payload (Missing: no such key, NoneVal: null)
RawRecord(dict, ca_address, coin_name, coin_ticker) ==
    [dict |-> dict, ca_address |-> ca_address, coin_name |-> coin_name,
     coin_ticker |-> coin_ticker]
RawB1 == RawRecord(TRUE, TokB1.address, TokB1.name, TokB1.symbol)
RawB2 == RawRecord(TRUE, TokB2.address, NoneVal, TokB2.symbol)
RawB3 == RawRecord(TRUE, Missing, TokB3.name, TokB3.symbol)
\* an element that is not a dict: token.get raises AttributeError
RawString == RawRecord(FALSE, Missing, Missing, Missing)

\* processed_token of one record
BelieveProcessed(item) ==
    BelieveToken(Get(item.ca_address, <<>>), Get(item.coin_name, <<>>),
                 Get(item.coin_ticker, <<>>))

\* --- fetch_with_retry -----------------------------------------------------
\* jitter = 1.0 * (0.5 - random.random()): random() is in [0, 1)
Jitters == {-499, 500}

Min(a, b) == IF a < b THEN a ELSE b

\* delay = min(base_delay + jitter, 20), after the failed attempt
BackoffDelay(attempt, jitter) == Min((2 ^ attempt) * 2000 + jitter, 20000)

\* variant of ShouldSleep: the backoff follows every failed attempt
AlwaysSleep(attempt) == TRUE

\* "if attempt < max_retries - 1"
ShouldSleep(attempt) == attempt < max_retries - 1

\* "return None" after the loop
Exhausted == NullPayload

\* --- frames ---------------------------------------------------------------
\* the frame of a call that has issued its first request at the time now
Frame(fn, force_refresh, min_followers, now) ==
    [fn |-> fn, force |-> force_refresh, min_followers |-> min_followers, now |-> now,
     attempt |-> 0, pc |-> "request", delay |-> 0, wake |-> 0,
     result |-> <<>>, path |-> "none"]

\* the call has returned result at the return statement path
Returned(frame, result, path) ==
    [frame EXCEPT !.pc = "done", !.result = result, !.path = path, !.force = FALSE,
                  !.now = 0, !.attempt = 0, !.delay = 0, !.wake = 0]

InFlight(c, fn, pc) == c \in DOMAIN calls /\ calls[c].fn = fn /\ calls[c].pc = pc

\* --- fetch_latest_tokens --------------------------------------------------
\* what a return of fetch_latest_tokens leaves: its value and the globals
Effect(result, path, tc, cr, lft) ==
    [result |-> result, path |-> path, tc |-> tc, cr |-> cr, lft |-> lft]

\* "if data is None:" with cached = get_cached_data("latest-tokens")
FailedFetch(frame, cached) ==
    IF TruthyList(cached)
    THEN Effect(cached.data, "failed_cache", token_cache, cached_response, last_fetch_time)
    ELSE Effect(get_mock_tokens, "failed_mock",
                cache_data(token_cache, LatestKey, get_mock_tokens, clock),
                Some(get_mock_tokens), frame.now)

\* "except Exception as e:" with cached = get_cached_data("latest-tokens")
UnexpectedError(cached) ==
    IF TruthyList(cached)
    THEN Effect(cached.data, "error_cache", token_cache, cached_response, last_fetch_time)
    ELSE Effect(get_mock_tokens, "error_mock", token_cache, cached_response, last_fetch_time)

\* variant of Processed: the list is cached and returned as it is
ProcessedAsIs(frame, processed_tokens) ==
    Effect(processed_tokens, "live",
           cache_data(token_cache, LatestKey, processed_tokens, clock),
           Some(processed_tokens), frame.now)

\* the end of fetch_latest_tokens once the loop has built processed_tokens
Processed(frame, processed_tokens) ==
    IF processed_tokens = <<>>
    THEN Effect(get_mock_tokens, "no_valid", token_cache, cached_response, last_fetch_time)
    ELSE Effect(processed_tokens, "live",
                cache_data(token_cache, LatestKey, processed_tokens, clock),
                Some(processed_tokens), frame.now)

\* fetch_latest_tokens from the return of fetch_with_retry on: len(data)
\* raises on a number
AfterRetry(frame, data) ==
    IF data.kind = "null"
    THEN FailedFetch(frame, get_cached_data(token_cache, LatestKey, clock))
    ELSE IF data.kind = "scalar"
    THEN UnexpectedError(get_cached_data(token_cache, LatestKey, clock))
    ELSE Processed(frame, ProcessedTokens(data.items))

\* fetch_latest_tokens returns with the effect e
Complete(c, e) ==
    /\ calls' = Put(calls, c, Returned(calls[c], e.result, e.path))
    /\ token_cache' = e.tc
    /\ cached_response' = e.cr
    /\ last_fetch_time' = e.lft

\* session.get of fetch_with_retry: the request goes out
Issue(c, frame) ==
    /\ calls' = Put(calls, c, frame)
    /\ last_request' = IF frame.force THEN last_request
                       ELSE [at |-> clock, by |-> c, attempt |-> frame.attempt]

\* variant of CallLatest: a forced call runs the two checks as well
CallLatestChecked(c, force_refresh) ==
    /\ c \notin DOMAIN calls
    /\ IF clock - last_fetch_time < rate_limit /\ TruthyList(cached_response)
       THEN /\ calls' = Put(calls, c, Returned(Frame("latest", force_refresh, 0, clock),
                                               cached_response.data, "rate_limited"))
            /\ UNCHANGED last_request
       ELSE IF TruthyList(get_cached_data(token_cache, LatestKey, clock))
       THEN /\ calls' = Put(calls, c, Returned(Frame("latest", force_refresh, 0, clock),
                                 get_cached_data(token_cache, LatestKey, clock).data,
                                 "ttl_hit"))
            /\ UNCHANGED last_request
       ELSE Issue(c, Frame("latest", force_refresh, 0, clock))
    /\ UNCHANGED <<clock, token_cache, last_fetch_time, cached_response,
                   believe_token_cache, last_believe_fetch_time, believe_fetched>>

\* fetch_latest_tokens(force_refresh) up to its first await: the rate limit
\* check, the TTL cache, or the first request of fetch_with_retry
CallLatest(c, force_refresh) ==
    /\ c \notin DOMAIN calls
    /\ IF ~force_refresh /\ clock - last_fetch_time < rate_limit
          /\ TruthyList(cached_response)
       THEN /\ calls' = Put(calls, c, Returned(Frame("latest", force_refresh, 0, clock),
                                               cached_response.data, "rate_limited"))
            /\ UNCHANGED last_request
       ELSE IF ~force_refresh
               /\ TruthyList(get_cached_data(token_cache, LatestKey, clock))
       THEN /\ calls' = Put(calls, c, Returned(Frame("latest", force_refresh, 0, clock),
                                 get_cached_data(token_cache, LatestKey, clock).data,
                                 "ttl_hit"))
            /\ UNCHANGED last_request
       ELSE Issue(c, Frame("latest", force_refresh, 0, clock))
    /\ UNCHANGED <<clock, token_cache, last_fetch_time, cached_response,
                   believe_token_cache, last_believe_fetch_time, believe_fetched>>

\* an attempt of fetch_with_retry raises (status other than 200, transport
\* error, timeout, a body that is not JSON): the backoff, or None to
\* fetch_latest_tokens after the last attempt
AttemptFails(c, jitter) ==
    /\ InFlight(c, "latest", "request")
    /\ IF ShouldSleep(calls[c].attempt)
       THEN /\ calls' = [calls EXCEPT ![c].pc = "sleep",
                                      ![c].delay = BackoffDelay(calls[c].attempt, jitter),
                                      ![c].wake = clock + BackoffDelay(calls[c].attempt, jitter)]
            /\ UNCHANGED <<token_cache, last_fetch_time, cached_response>>
       ELSE Complete(c, AfterRetry(calls[c], Exhausted))
    /\ UNCHANGED <<clock, believe_token_cache, last_believe_fetch_time, last_request,
                   believe_fetched>>

\* asyncio.sleep(delay) returns: the next attempt
BackoffDone(c) ==
    /\ InFlight(c, "latest", "sleep")
    /\ clock >= calls[c].wake
    /\ calls[c].attempt + 1 < max_retries
    /\ Issue(c, [calls[c] EXCEPT !.pc = "request", !.attempt = @ + 1,
                                 !.delay = 0, !.wake = 0])
    /\ UNCHANGED <<clock, token_cache, last_fetch_time, cached_response,
                   believe_token_cache, last_believe_fetch_time, believe_fetched>>

\* an attempt of fetch_with_retry returns data: fetch_latest_tokens runs to
\* its return
AttemptReturns(c, data) ==
    /\ InFlight(c, "latest", "request")
    /\ Complete(c, AfterRetry(calls[c], data))
    /\ UNCHANGED <<clock, believe_token_cache, last_believe_fetch_time, last_request,
                   believe_fetched>>

\* --- fetch_believe_tokens -------------------------------------------------
\* "except Exception as e:" the cached list of the key, or []
BelieveFallback(key) ==
    IF key \in DOMAIN believe_token_cache THEN believe_token_cache[key] ELSE <<>>

\* fetch_believe_tokens(min_followers, force_refresh) up to its await
CallBelieve(c, min_followers, force_refresh) ==
    /\ c \notin DOMAIN calls
    /\ calls' = Put(calls, c,
          IF ~force_refresh /\ clock - last_believe_fetch_time < believe_rate_limit
             /\ cache_key(min_followers) \in DOMAIN believe_token_cache
          THEN Returned(Frame("believe", force_refresh, min_followers, clock),
                        believe_token_cache[cache_key(min_followers)], "rate_limited")
          ELSE Frame("believe", force_refresh, min_followers, clock))
    /\ UNCHANGED <<clock, token_cache, last_fetch_time, cached_response,
                   believe_token_cache, last_believe_fetch_time, last_request,
                   believe_fetched>>

\* the request raises (status other than 200, transport error, timeout, a
\* body that is not JSON)
BelieveFails(c) ==
    /\ InFlight(c, "believe", "request")
    /\ calls' = Put(calls, c, Returned(calls[c],
                        BelieveFallback(cache_key(calls[c].min_followers)), "failed"))
    /\ UNCHANGED <<clock, token_cache, last_fetch_time, cached_response,
                   believe_token_cache, last_believe_fetch_time, last_request,
                   believe_fetched>>

\* the request returns data that is falsy (an empty list, null) or not a
\* list (an object): "return []"
BelieveNoData(c, data) ==
    /\ InFlight(c, "believe", "request")
    /\ data.kind # "list" \/ data.items = <<>>
    /\ calls' = Put(calls, c, Returned(calls[c], <<>>,
                                       IF data.kind = "list" THEN "empty" ELSE "no_data"))
    /\ UNCHANGED <<clock, token_cache, last_fetch_time, cached_response,
                   believe_token_cache, last_believe_fetch_time, last_request,
                   believe_fetched>>

\* the request returns a list with an element that is not a dict: the loop
\* raises before anything is cached
BelieveBadRecord(c) ==
    /\ InFlight(c, "believe", "request")
    /\ calls' = Put(calls, c, Returned(calls[c],
                        BelieveFallback(cache_key(calls[c].min_followers)), "failed"))
    /\ UNCHANGED <<clock, token_cache, last_fetch_time, cached_response,
                   believe_token_cache, last_believe_fetch_time, last_request,
                   believe_fetched>>

\* the request returns a list of records: they are processed and cached
BelieveReturns(c, items) ==
    /\ InFlight(c, "believe", "request")
    /\ items # <<>>
    /\ calls' = Put(calls, c, Returned(calls[c],
                        [i \in 1..Len(items) |-> BelieveProcessed(items[i])], "live"))
    /\ believe_token_cache' = Put(believe_token_cache, cache_key(calls[c].min_followers),
                                  [i \in 1..Len(items) |-> BelieveProcessed(items[i])])
    /\ last_believe_fetch_time' = calls[c].now
    /\ believe_fetched' = Put(believe_fetched, cache_key(calls[c].min_followers),
                              calls[c].now)
    /\ UNCHANGED <<clock, token_cache, last_fetch_time, cached_response, last_request>>

\* --- callers and time -----------------------------------------------------
\* the caller takes the list its call has returned
CallReturns(c) ==
    /\ c \in DOMAIN calls
    /\ calls[c].pc = "done"
    /\ calls' = [k \in DOMAIN calls \ {c} |-> calls[k]]
    /\ UNCHANGED <<clock, token_cache, last_fetch_time, cached_response,
                   believe_token_cache, last_believe_fetch_time, last_request,
                   believe_fetched>>

\* time passes up to one of the given instants
Advance(instants) ==
    /\ \E t \in instants : t > clock /\ clock' = t
    /\ UNCHANGED <<token_cache, last_fetch_time, cached_response, believe_token_cache,
                   last_believe_fetch_time, calls, last_request, believe_fetched>>

\* what the source clients leave alone
store_vars == <<user_filters, user_matched_tokens, user_match_history, disk,
                polling_tasks, tasks>>

\* the invocations of the commands that call fetch_latest_tokens: /debug
\* and /search without force_refresh, /refresh and the ticks of the
\* sessions with it; each makes one call
Handlers == {"h1", "h2"}

\* the instants at which something runs
PrimaryInstants == {StartTime + d : d \in {1000, 1500, 7000,
                                           ttl_minutes * 60 * 1000,
                                           ttl_minutes * 60 * 1000 + 1000}}

NextPrimary ==
    \/ \E c \in Handlers, force_refresh \in BOOLEAN :
          CallLatest(c, force_refresh) /\ UNCHANGED store_vars
    \/ \E c \in Handlers, jitter \in Jitters : AttemptFails(c, jitter) /\ UNCHANGED store_vars
    \/ \E c \in Handlers : BackoffDone(c) /\ UNCHANGED store_vars
    \/ \E c \in Handlers, data \in LatestPayloads :
          AttemptReturns(c, data) /\ UNCHANGED store_vars
    \/ Advance(PrimaryInstants) /\ UNCHANGED store_vars

SpecPrimary == Init /\ [][NextPrimary]_vars

\* the minimum-follower thresholds of the believe filters and of
\* /believe_tokens
Thresholds == {0, 100}

\* the invocations that call fetch_believe_tokens, each making one call
BelieveCallers == {"h1", "h2", "h3"}

\* what the signal feed answers with status 200
ObjectPayload == [kind |-> "object", items |-> <<>>]
BelieveLists == {<<RawB1>>, <<RawB3>>}
BelieveNoLists == {ListPayload(<<>>), ObjectPayload}

BelieveInstants == {StartTime + d : d \in {3000, 5000, 6000}}

NextBelieveFeed ==
    \/ \E c \in BelieveCallers, min_followers \in Thresholds, force_refresh \in BOOLEAN :
          CallBelieve(c, min_followers, force_refresh) /\ UNCHANGED store_vars
    \/ \E c \in BelieveCallers : BelieveFails(c) /\ UNCHANGED store_vars
    \/ \E c \in BelieveCallers, data \in BelieveNoLists :
          BelieveNoData(c, data) /\ UNCHANGED store_vars
    \/ \E c \in BelieveCallers : BelieveBadRecord(c) /\ UNCHANGED store_vars
    \/ \E c \in BelieveCallers, items \in BelieveLists :
          BelieveReturns(c, items) /\ UNCHANGED store_vars
    \/ Advance(BelieveInstants) /\ UNCHANGED store_vars

SpecBelieve == Init /\ [][NextBelieveFeed]_vars

(***************************************************************************)
(* Specification                                                           *)
(***************************************************************************)
\* an exception that is propagating reaches its handler before anything else runs
NoFault == \A t \in TaskIds : tasks[t].pc # "faulted"

\* the requests on the filter list
Filtering ==
    \/ \E u \in Users, f \in FilterInputs : add_filter(u, f)
    \/ \E u \in Users, i \in 0..MaxFilters : remove_filter(u, i)

\* the requests that start and stop sessions in the given chats
Tracking(chats) ==
    \/ \E u \in Users, c \in chats : start_tracking(u, c)
    \/ \E u \in Users, c \in chats : stop_tracking(u, c)

\* the requests on the match store
Matching ==
    \/ \E u \in Users : start_command(u)
    \/ \E u \in Users, s \in PrimaryBatches : refresh_command(u, s)
    \/ \E u \in Users, s \in PrimaryBatches, b \in BelieveBatches : refresh_callback(u, s, b)
    \/ \E u \in Users : clear_matches(u)

TaskStepOn(pb, bb) ==
    \/ \E t \in TaskIds : TaskBegin(t)
    \/ \E t \in TaskIds : EnterLoop(t)
    \/ \E t \in TaskIds, b \in pb : FetchPrimaryReturn(t, b)
    \/ \E t \in TaskIds, b \in bb : FetchBelieveReturn(t, b)
    \/ \E t \in TaskIds : SendDone(t)
    \/ \E t \in TaskIds : SendFails(t)
    \/ \E t \in TaskIds : SleepReturn(t)
    \/ \E t \in TaskIds : ErrorSendDone(t)
    \/ \E t \in TaskIds : Cancelled(t)

\* every request, with the sessions of one chat
Next ==
    \/ NoFault /\ Filtering /\ UNCHANGED fetch_vars
    \/ NoFault /\ Tracking({"c1"}) /\ UNCHANGED fetch_vars
    \/ NoFault /\ Matching /\ UNCHANGED fetch_vars
    \/ NoFault /\ TaskStepOn(PrimaryBatches, BelieveBatches) /\ UNCHANGED fetch_vars
    \/ \E t \in TaskIds : ExceptHandler(t) /\ UNCHANGED fetch_vars

Spec == Init /\ [][Next]_vars

\* the sessions of all chats next to each other, the match store changed by
\* the sessions only, the feeds returning at most one token at a time
NextSessions ==
    \/ NoFault /\ UNCHANGED fetch_vars
               /\ \E u \in Users, f \in FilterInputs : add_filter(u, f)
    \/ NoFault /\ Tracking(Chats) /\ UNCHANGED fetch_vars
    \/ NoFault /\ TaskStepOn(SingleBatches, NullNameBatches) /\ UNCHANGED fetch_vars
    \/ \E t \in TaskIds : ExceptHandler(t) /\ UNCHANGED fetch_vars

SpecSessions == Init /\ [][NextSessions]_vars

\* the files of a user as an earlier run of the bot can have left them:
\* save_user_data writes one file per kind, load_user_data reads each file
\* on its own and takes [] for a file that is not there
FilterFiles == {fs \in SeqsUpTo(FilterInputs, MaxFilters) :
                   \A i, j \in 1..Len(fs) : fs[i] = fs[j] => i = j}
MatchedFiles == SeqsUpTo(PrimaryTokens \cup BelieveTokens, MaxHistory)
HistoryFiles ==
    {<<>>} \cup {<<Entry(token, filter_obj)>> :
                    token \in PrimaryTokens \cup BelieveTokens, filter_obj \in FilterInputs}

\* the bot starts with nothing in memory and the files on disk
InitFiles ==
    /\ user_filters = EmptyDict
    /\ user_matched_tokens = EmptyDict
    /\ user_match_history = EmptyDict
    /\ \E u \in Users, fs \in FilterFiles, ms \in MatchedFiles, hs \in HistoryFiles :
          disk = [filters |-> Put(EmptyDict, u, fs),
                  matched |-> Put(EmptyDict, u, ms),
                  history |-> Put(EmptyDict, u, hs)]
    /\ polling_tasks = EmptyDict
    /\ tasks = EmptyDict
    /\ FetchInit

\* /start loads the files, ClearMatches works on what was loaded
NextFiles ==
    \/ \E u \in Users : start_command(u) /\ UNCHANGED fetch_vars
    \/ \E u \in Users : clear_matches(u) /\ UNCHANGED fetch_vars

SpecFiles == InitFiles /\ [][NextFiles]_vars

\* after a restart the first request of a user is /start or an AddFilter
NextRestart ==
    \/ \E u \in Users : start_command(u) /\ UNCHANGED fetch_vars
    \/ \E u \in Users, new_filter \in FilterInputs :
          add_filter(u, new_filter) /\ UNCHANGED fetch_vars

SpecRestart == InitFiles /\ [][NextRestart]_vars

\* the sessions of one chat and the refresh button, the signal feed
\* returning a record without a ca_address
NextSignal ==
    \/ NoFault /\ UNCHANGED fetch_vars
               /\ \E u \in Users, f \in FilterInputs : add_filter(u, f)
    \/ NoFault /\ Tracking({"c1"}) /\ UNCHANGED fetch_vars
    \/ NoFault /\ UNCHANGED fetch_vars
               /\ \E u \in Users, s \in SingleBatches, b \in NoAddressBatches :
                     refresh_callback(u, s, b)
    \/ NoFault /\ TaskStepOn(SingleBatches, NoAddressBatches) /\ UNCHANGED fetch_vars
    \/ \E t \in TaskIds : ExceptHandler(t) /\ UNCHANGED fetch_vars

SpecSignal == Init /\ [][NextSignal]_vars

\* the requests on the filter list, with filters entered in several forms
NextFilters ==
    \/ \E u \in Users, f \in FilterForms : add_filter(u, f) /\ UNCHANGED fetch_vars
    \/ \E u \in Users, i \in 0..MaxFilters : remove_filter(u, i) /\ UNCHANGED fetch_vars

SpecFilters == Init /\ [][NextFilters]_vars

\* a user who has added MaxListed filters, no two of them equal
ListedFilters == {FTok, FBel, FTwAt, FTwBar, FWebUrl, FWal}
InitListed ==
    /\ \E u \in Users :
          \E fs \in {l \in [1..MaxListed -> ListedFilters] :
                        \A i, j \in 1..MaxListed : l[i] = l[j] => i = j} :
             /\ user_filters = Put(EmptyDict, u, fs)
             /\ disk = [filters |-> Put(EmptyDict, u, fs), matched |-> EmptyDict,
                        history |-> EmptyDict]
    /\ user_matched_tokens = EmptyDict
    /\ user_match_history = EmptyDict
    /\ polling_tasks = EmptyDict
    /\ tasks = EmptyDict
    /\ FetchInit

\* /remove_filter <n> and the remove_filter_<index> button, with every index
NextRemove ==
    \E u \in Users, index \in -1..MaxListed :
        remove_filter(u, index) /\ UNCHANGED fetch_vars

SpecRemove == InitListed /\ [][NextRemove]_vars

\* --- the ticks of a session on the source clients --------------------------
\* the frame of the call a task awaits is kept under the id of the task,
\* that of /believe_tokens under CommandCall
CommandCall == 0

\* "solana_tokens = await fetch_latest_tokens(force_refresh=True)": the call
\* runs up to its request
TickCallsLatest(t) ==
    /\ Runnable(t, "primary")
    /\ CallLatest(t, TRUE)
    /\ UNCHANGED store_vars

\* the call returns solana_tokens to the tick
TickGetsLatest(t) ==
    /\ InFlight(t, "latest", "done")
    /\ FetchPrimaryReturn(t, calls[t].result)
    /\ CallReturns(t)

\* "min_followers = int(filter_obj.value)" and "believe_tokens = await
\* fetch_believe_tokens(min_followers=min_followers, force_refresh=True)"
TickCallsBelieve(t) ==
    /\ Runnable(t, "believe")
    /\ CallBelieve(t, IntOf(tasks[t].believe_filters[tasks[t].bidx].value), TRUE)
    /\ UNCHANGED store_vars

\* the call returns believe_tokens to the tick
TickGetsBelieve(t) ==
    /\ InFlight(t, "believe", "done")
    /\ FetchBelieveReturn(t, calls[t].result)
    /\ CallReturns(t)

\* believe_tokens_command: fetch_believe_tokens(min_followers, force_refresh=True)
believe_tokens_command(min_followers) ==
    /\ CallBelieve(CommandCall, min_followers, TRUE)
    /\ UNCHANGED store_vars

\* the signal feed answering a list with one record, the second with a
\* coin_name that is null
FeedLists == {<<RawB1>>, <<RawB2>>}
\* the primary feed answering a list with one entry, null, or a number
FeedPayloads == {ListPayload(<<RawA1>>), ListPayload(<<RawNoAddress>>), ScalarPayload}
FeedJitters == {500}
FeedInstants == {StartTime + d : d \in {3000, 8000}}

\* a step of a session that does not touch the source clients
TickStep ==
    \/ \E t \in TaskIds : TaskBegin(t)
    \/ \E t \in TaskIds : EnterLoop(t)
    \/ \E t \in TaskIds : SendDone(t)
    \/ \E t \in TaskIds : SendFails(t)
    \/ \E t \in TaskIds : SleepReturn(t)
    \/ \E t \in TaskIds : ErrorSendDone(t)

\* a step of a call of fetch_latest_tokens
LatestStep ==
    \/ \E c \in DOMAIN calls, jitter \in FeedJitters : AttemptFails(c, jitter)
    \/ \E c \in DOMAIN calls : BackoffDone(c)
    \/ \E c \in DOMAIN calls, data \in FeedPayloads : AttemptReturns(c, data)

\* a step of a call of fetch_believe_tokens
BelieveStep ==
    \/ \E c \in DOMAIN calls : BelieveFails(c)
    \/ \E c \in DOMAIN calls : BelieveNoData(c, ObjectPayload)
    \/ \E c \in DOMAIN calls : BelieveBadRecord(c)
    \/ \E c \in DOMAIN calls, items \in FeedLists : BelieveReturns(c, items)

\* the sessions of one chat polling the two feeds, next to one invocation
\* of /believe_tokens
NextFeeds ==
    \/ NoFault /\ UNCHANGED fetch_vars
               /\ \E u \in Users, f \in FilterInputs : add_filter(u, f)
    \/ NoFault /\ UNCHANGED fetch_vars
               /\ \E u \in Users : start_tracking(u, "c1")
    \/ NoFault /\ TickStep /\ UNCHANGED fetch_vars
    \/ \E t \in TaskIds : ExceptHandler(t) /\ UNCHANGED fetch_vars
    \/ NoFault /\ \E t \in TaskIds : TickCallsLatest(t)
    \/ NoFault /\ \E t \in TaskIds : TickGetsLatest(t)
    \/ NoFault /\ \E t \in TaskIds : TickCallsBelieve(t)
    \/ NoFault /\ \E t \in TaskIds : TickGetsBelieve(t)
    \/ NoFault /\ LatestStep /\ UNCHANGED store_vars
    \/ NoFault /\ BelieveStep /\ UNCHANGED store_vars
    \/ NoFault /\ believe_tokens_command(0)
    \/ NoFault /\ Advance(FeedInstants) /\ UNCHANGED store_vars

SpecFeeds == Init /\ [][NextFeeds]_vars

\* --- the signal feed and its thresholds ------------------------------------
\* twitter_info.followers_count of the upstream record of a token
followers_count(token) == IF token = TokB2 THEN 150 ELSE 50

\* what the signal feed answers to "tokens?count=50&min_followers=...": the
\* upstream lists records with at least that many followers
SignalAnswers(min_followers) ==
    SeqsUpTo({token \in BelieveTokens : followers_count(token) >= min_followers},
             MaxBelieve)

\* the fetch for the believe filter of the tick returns what the upstream
\* answers for its threshold
TickFetchesSignal(t) ==
    \E believe_tokens \in
          SignalAnswers(IF tasks[t].pc = "believe"
                        THEN IntOf(tasks[t].believe_filters[tasks[t].bidx].value)
                        ELSE 0) :
       FetchBelieveReturn(t, believe_tokens)

\* the sessions of one chat of a user whose filters are believe filters
NextThresholds ==
    \/ NoFault /\ UNCHANGED fetch_vars
               /\ \E u \in Users, f \in ThresholdFilters : add_filter(u, f)
    \/ NoFault /\ Tracking({"c1"}) /\ UNCHANGED fetch_vars
    \/ NoFault /\ TickStep /\ UNCHANGED fetch_vars
    \/ NoFault /\ UNCHANGED fetch_vars /\ \E t \in TaskIds : TickFetchesSignal(t)
    \/ NoFault /\ UNCHANGED fetch_vars /\ \E t \in TaskIds : Cancelled(t)
    \/ \E t \in TaskIds : ExceptHandler(t) /\ UNCHANGED fetch_vars

SpecThresholds == Init /\ [][NextThresholds]_vars

(***************************************************************************)
(* Properties                                                              *)
(***************************************************************************)
A1 == TokA1.address
B1 == TokB1.address
B2 == TokB2.address

\* the unfinished tasks that poll for the user in the chat
SessionOf(user_id, chat_id) ==
    {t \in TaskIds : tasks[t].user = user_id /\ tasks[t].chat = chat_id /\ ~Done(tasks[t])}

\* the number of the user's matched tokens with the address
MatchedCount(user_id, address) ==
    Cardinality({i \in 1..Len(GetList(user_matched_tokens, user_id)) :
                    user_matched_tokens[user_id][i].address = address})

\* the number of the user's history records with the address
HistoryCount(user_id, address) ==
    Cardinality({i \in 1..Len(GetList(user_match_history, user_id)) :
                    user_match_history[user_id][i].token.address = address})

\* C1: within one session no address is listed by more than one notification
\* and none twice by one notification, whatever the feeds return (batches
\* that repeat an address included): every address was listed at most once.
C1_AnnouncedAtMostOnce ==
    \A t \in TaskIds : \A address \in DOMAIN tasks[t].notified :
        tasks[t].notified[address] <= 1

\* a session that announced A1 in an earlier tick and is sending a later
\* notification that lists B1 only
C1_Witness ==
    \E t \in TaskIds :
        /\ tasks[t].pc = "send"
        /\ tasks[t].msgs = << <<B1>> >>
        /\ A1 \in DOMAIN tasks[t].notified
        /\ tasks[t].notified[A1] = 1

\* C2: with two sessions of one user in different chats under every
\* interleaving of their steps, an address a running session has matched was
\* listed by exactly one of its notifications, and the user's matched tokens
\* and match history hold exactly one entry for it.
C2_OncePerSessionOnceInStore ==
    \A t \in TaskIds : \A address \in tasks[t].seen :
        /\ MatchedCount(tasks[t].user, address) = 1
        /\ HistoryCount(tasks[t].user, address) = 1
        /\ Running(tasks[t]) => GetCount(tasks[t].notified, address) = 1

\* two running sessions in different chats have both announced A1
C2_Witness ==
    \E t1 \in TaskIds, t2 \in TaskIds :
        /\ tasks[t1].chat # tasks[t2].chat
        /\ Running(tasks[t1]) /\ Running(tasks[t2])
        /\ GetCount(tasks[t1].notified, A1) = 1
        /\ GetCount(tasks[t2].notified, A1) = 1
        /\ MatchedCount(tasks[t1].user, A1) = 1

\* C3 as stated: whenever a key has a live session, StartTracking for it
\* answers AlreadyTracking.
C3_LiveKeyAnswersAlreadyTracking ==
    \A u \in Users, c \in Chats :
        SessionOf(u, c) # {} => start_tracking_result(u, c) = "AlreadyTracking"

\* C3: at most one unfinished task polls for a (user, chat) key, and
\* StartTracking for a key with a live session is refused: it answers
\* AlreadyTracking when the user has a filter and NoFilters when the user has
\* none.
C3_OneLiveSessionPerKey ==
    \A u \in Users, c \in Chats :
        /\ Cardinality(SessionOf(u, c)) <= 1
        /\ SessionOf(u, c) # {} =>
              start_tracking_result(u, c) =
                  IF GetList(user_filters, u) = <<>> THEN "NoFilters" ELSE "AlreadyTracking"

\* a live session whose user still has a filter: StartTracking is refused
\* with AlreadyTracking
C3_Witness ==
    \E u \in Users, c \in Chats :
        /\ SessionOf(u, c) # {}
        /\ GetList(user_filters, u) # <<>>
        /\ start_tracking_result(u, c) = "AlreadyTracking"

\* C4: StartTracking for a user with an empty filter list, or with none,
\* answers NoFilters, and no step that changes the state is such a request.
C4_NoFiltersRefused ==
    [][\A u \in Users, c \in Chats :
          GetList(user_filters, u) = <<>> =>
              /\ start_tracking_result(u, c) = "NoFilters"
              /\ ~start_tracking(u, c)]_vars

\* a user whose filter list is there but empty, and no task
C4_Witness ==
    \E u \in Users :
        /\ u \in DOMAIN user_filters
        /\ user_filters[u] = <<>>
        /\ start_tracking_result(u, "c1") = "NoFilters"
        /\ tasks = EmptyDict

\* C5: StopTracking for a key without a live session answers NotTracking and
\* changes nothing; for a key with a live session it answers Ack, requests
\* the cancellation of that session and leaves every other task as it is.
C5_StopTouchesItsSessionOnly ==
    [][\A u \in Users, c \in Chats :
          /\ SessionOf(u, c) = {} =>
                /\ stop_tracking_result(u, c) = "NotTracking"
                /\ ~stop_tracking(u, c)
          /\ SessionOf(u, c) # {} =>
                /\ stop_tracking_result(u, c) = "Ack"
                /\ stop_tracking(u, c) =>
                      /\ DOMAIN tasks' = DOMAIN tasks
                      /\ \A t \in SessionOf(u, c) : tasks'[t].cancel
                      /\ \A t \in TaskIds \ SessionOf(u, c) : tasks'[t] = tasks[t]]_vars

\* one session has been asked to stop and has not ended yet, the session
\* of the other chat is running and not asked to stop
C5_Witness ==
    \E t1 \in TaskIds, t2 \in TaskIds :
        /\ tasks[t1].chat # tasks[t2].chat
        /\ tasks[t1].cancel /\ ~Done(tasks[t1])
        /\ ~tasks[t2].cancel /\ tasks[t2].pc \in {"primary", "believe", "send", "sleep"}

C7_FaultEndsOneSession ==
    [][\A t \in TaskIds :
          /\ tasks[t].pc = "faulted" =>
                /\ DOMAIN tasks' = DOMAIN tasks
                /\ ~Running(tasks'[t])
                /\ tasks'[t].errors = 1
                /\ \A o \in TaskIds \ {t} : tasks'[o] = tasks[o]
                /\ UNCHANGED <<user_matched_tokens, user_match_history, polling_tasks>>
          /\ (tasks[t].errors > 0 /\ t \in DOMAIN tasks') =>
                /\ tasks'[t].pc \in {"error_send", "done"}
                /\ tasks'[t].errors = tasks[t].errors]_vars

\* a session has sent its error notification while the session of the other
\* chat is running
C7_Witness ==
    \E t1 \in TaskIds, t2 \in TaskIds :
        /\ tasks[t1].chat # tasks[t2].chat
        /\ tasks[t1].errors = 1
        /\ Running(tasks[t2])

\* C8: a tick sends at most one message; the step that ends the matching
\* section sends one iff the tick matched an address the chat had not seen,
\* and the message lists exactly those addresses, each once.
C8_OneBatchPerTick ==
    [][\A t \in TaskIds \cap DOMAIN tasks' :
          /\ Len(tasks'[t].msgs) <= 1
          /\ (tasks'[t].pc = "send") = (tasks'[t].msgs # <<>>)
          /\ ( /\ tasks'[t] # tasks[t]
               /\ tasks'[t].cancel = tasks[t].cancel
               /\ tasks[t].pc \notin {"send", "done"}
               /\ tasks'[t].pc \in {"send", "sleep"} ) =>
                /\ (tasks'[t].msgs # <<>>) = (tasks'[t].seen # tasks[t].seen)
                /\ Addresses(tasks'[t].msgs) = tasks'[t].seen \ tasks[t].seen
                /\ \A address \in Addresses(tasks'[t].msgs) :
                      Listed(tasks'[t].msgs, address) = 1]_vars

\* a tick that matched two addresses sends them in one message
C8_Witness ==
    \E t \in TaskIds :
        /\ tasks[t].pc = "send"
        /\ Len(tasks[t].msgs) = 1
        /\ Len(tasks[t].msgs[1]) = 2

\* C9 as stated: when a tick begins after the sleep, the primary feed is
\* fetched iff the filter list of the user has, at that moment, a filter
\* that is not a believe filter.
C9_PartitionedEveryTick ==
    [][\A t \in TaskIds \cap DOMAIN tasks' :
          ( /\ tasks[t].pc = "sleep"
            /\ tasks'[t].pc \notin {"sleep", "done"} ) =>
              ( (tasks'[t].pc = "primary")
                = (SelectSeq(GetList(user_filters, tasks[t].user), IsOther) # <<>>) )]_vars

\* C10 as stated: the matched tokens of a user never hold two tokens with
\* the same address.
C10_MatchedDedupedByAddress ==
    \A u \in DOMAIN user_matched_tokens :
        \A i \in 1..Len(user_matched_tokens[u]), j \in 1..Len(user_matched_tokens[u]) :
            user_matched_tokens[u][i].address = user_matched_tokens[u][j].address => i = j

\* the addresses of the tokens the feeds return
AllAddresses == {token.address : token \in PrimaryTokens \cup BelieveTokens}

\* C11: recording is idempotent on the address within a session.  A step of
\* a session changes the number of matched tokens and of history records of
\* no address the session had processed before; for an address it processes
\* for the first time it adds exactly one matched token and one history
\* record when the matched tokens held none, however often the tick's tokens
\* repeat the address, and nothing when they held one.
C11_RecordIdempotent ==
    [][\A t \in TaskIds \cap DOMAIN tasks' : \A address \in AllAddresses :
          tasks'[t] # tasks[t] =>
              /\ address \in tasks[t].seen =>
                    /\ MatchedCount(tasks[t].user, address)'
                           = MatchedCount(tasks[t].user, address)
                    /\ HistoryCount(tasks[t].user, address)'
                           = HistoryCount(tasks[t].user, address)
              /\ address \in tasks'[t].seen \ tasks[t].seen =>
                    /\ MatchedCount(tasks[t].user, address)'
                           = IF MatchedCount(tasks[t].user, address) = 0 THEN 1
                             ELSE MatchedCount(tasks[t].user, address)
                    /\ HistoryCount(tasks[t].user, address)'
                           = IF MatchedCount(tasks[t].user, address) = 0
                             THEN HistoryCount(tasks[t].user, address) + 1
                             ELSE HistoryCount(tasks[t].user, address)]_vars

\* a session that recorded A1 in an earlier tick has run a later tick, and
\* the matched tokens and the history hold A1 once
C11_Witness ==
    \E t \in TaskIds :
        /\ tasks[t].pc = "send"
        /\ A1 \in tasks[t].seen
        /\ A1 \notin Addresses(tasks[t].msgs)
        /\ MatchedCount(tasks[t].user, A1) = 1
        /\ HistoryCount(tasks[t].user, A1) = 1

\* C12: the addresses of a user's matched tokens are all among the addresses
\* of the tokens of the user's match history.
C12_MatchedWithinHistory ==
    \A u \in DOMAIN user_matched_tokens :
        ExistingAddresses(user_matched_tokens[u])
            \subseteq HistoryAddresses(GetList(user_match_history, u))

\* after a ClearMatches and a new match: the matched tokens hold B1 only, the
\* history holds A1 and B1
C12_Witness ==
    \E u \in DOMAIN user_matched_tokens :
        /\ ExistingAddresses(user_matched_tokens[u]) = {B1}
        /\ HistoryAddresses(GetList(user_match_history, u)) = {A1, B1}

\* C13 as stated: no address has more than one record in the match history
\* of a user.
C13_OneRecordPerAddress ==
    \A u \in DOMAIN user_match_history : \A address \in AllAddresses :
        HistoryCount(u, address) <= 1

\* the tokens of the records of a history
HistoryTokens(history) == [i \in 1..Len(history) |-> history[i].token]

\* the matched tokens whose address no record of the history has
Unrecorded(matched, history) ==
    LET New(token) == token.address \notin HistoryAddresses(history)
    IN  SelectSeq(matched, New)

\* C14 as stated: a ClearMatches on matched tokens that are not empty appends
\* to the history one record for every matched token whose address the
\* history did not have, in their order, nothing else, and leaves the matched
\* tokens empty.
C14_ClearFoldsAndEmpties ==
    [][\A u \in Users :
          (clear_matches_result(u) = "Ack" /\ clear_matches(u)) =>
              /\ user_matched_tokens'[u] = <<>>
              /\ HistoryTokens(user_match_history'[u])
                     = HistoryTokens(GetList(user_match_history, u))
                       \o Unrecorded(user_matched_tokens[u],
                                     GetList(user_match_history, u))]_vars

\* C15: a ClearMatches changes no task, so the addresses each session has
\* seen stay as they are; and a message a session sends lists no address the
\* session has announced before, also when a ClearMatches has taken the
\* address out of the matched tokens in between.
C15_ClearKeepsSeen ==
    [][/\ \A u \in Users : clear_matches(u) => UNCHANGED <<tasks, polling_tasks>>
       /\ \A t \in TaskIds \cap DOMAIN tasks' :
             tasks'[t].msgs # tasks[t].msgs =>
                 \A address \in Addresses(tasks'[t].msgs) :
                     GetCount(tasks[t].notified, address) = 0]_vars

\* a session that announced A1 is fetching again after a ClearMatches took A1
\* out of the matched tokens
C15_Witness ==
    \E t \in TaskIds :
        /\ tasks[t].pc = "primary"
        /\ A1 \in tasks[t].seen
        /\ GetCount(tasks[t].notified, A1) = 1
        /\ MatchedCount(tasks[t].user, A1) = 0
        /\ HistoryCount(tasks[t].user, A1) = 1

\* the token has an address that is not empty
Addressed(token) == token.address \notin {Missing, NoneVal, <<>>}

\* C16 as stated: every matched token and every token of a history record
\* has an address that is not empty.
C16_OnlyAddressedPersisted ==
    /\ \A u \in DOMAIN user_matched_tokens :
          \A i \in 1..Len(user_matched_tokens[u]) : Addressed(user_matched_tokens[u][i])
    /\ \A u \in DOMAIN user_match_history :
          \A i \in 1..Len(user_match_history[u]) : Addressed(user_match_history[u][i].token)

\* the indices of the filters whose rule the token satisfies
Satisfied(token, filters) ==
    {i \in 1..Len(filters) : FilterOutcome(token, filters[i]) = "match"}

\* C17 as stated: for every token of the feeds and every filter list of a
\* user, check_token_match returns the filter with the smallest index among
\* those whose rule the token satisfies, and none iff there is no such filter.
C17_FirstSatisfiedFilter ==
    \A u \in DOMAIN user_filters : \A token \in PrimaryTokens \cup BelieveTokens :
        IF Satisfied(token, user_filters[u]) = {}
        THEN check_token_match(token, user_filters[u]) = NoMatch
        ELSE /\ check_token_match(token, user_filters[u]).kind = "match"
             /\ \A i \in Satisfied(token, user_filters[u]) :
                   check_token_match(token, user_filters[u]).index <= i

\* the rule of a token filter as stated: the address, exactly, for a value
\* longer than AddressLen, else the name or the symbol, as a substring
TokenRule(token, value) ==
    IF Len(value) > AddressLen THEN Lower(token.address) = Lower(value)
    ELSE \/ Contains(Lower(token.name), Lower(value))
         \/ Contains(Lower(token.symbol), Lower(value))

\* C18 as stated: a token filter of a user matches a token of the feeds iff
\* the token satisfies the rule for the length of the filter's value.
C18_TokenRuleByLength ==
    \A u \in DOMAIN user_filters : \A i \in 1..Len(user_filters[u]) :
        user_filters[u][i].type = "token" =>
            \A token \in PrimaryTokens \cup BelieveTokens :
                (check_token_match(token, <<user_filters[u][i]>>).kind = "match")
                    = TokenRule(token, user_filters[u][i].value)

\* the forms of the twitter handle foo
TwitterForms == {FTwAt, FTwBare, FTwUrl}

\* C19: a twitter filter in a user's list is equal to each of the forms
\* @Foo, foo and https://x.com/foo of its handle, so adding any of them is
\* refused as a duplicate, and are_filters_equal gives the same answer for a
\* filter of the list and any other filter in either order.
C19_TwitterFormsEqual ==
    \A u \in DOMAIN user_filters : \A i \in 1..Len(user_filters[u]) :
        \A g \in FilterForms :
            /\ are_filters_equal(user_filters[u][i], g)
                   = are_filters_equal(g, user_filters[u][i])
            /\ (user_filters[u][i] \in TwitterForms /\ g \in TwitterForms) =>
                  /\ are_filters_equal(user_filters[u][i], g)
                  /\ add_filter_result(u, g) = "DuplicateFilter"

\* the list holds @Foo, and adding https://x.com/foo is refused
C19_Witness ==
    \E u \in DOMAIN user_filters :
        /\ user_filters[u] = <<FTwAt>>
        /\ add_filter_result(u, FTwUrl) = "DuplicateFilter"

\* no two filters of the list are equal under are_filters_equal
NoEqualFilters(filters) ==
    \A i, j \in 1..Len(filters) : are_filters_equal(filters[i], filters[j]) => i = j

\* C20: after every step no two filters of a user's list are equal under
\* are_filters_equal; an AddFilter of a filter equal to one of the list
\* answers DuplicateFilter, and no step that changes the state is such a
\* request.
C20_NoEqualFilters ==
    [][\A u \in Users :
          /\ NoEqualFilters(GetList(user_filters', u))
          /\ \A g \in FilterForms :
                (\E i \in 1..Len(GetList(user_filters, u)) :
                    are_filters_equal(user_filters[u][i], g)) =>
                    /\ add_filter_result(u, g) = "DuplicateFilter"
                    /\ ~add_filter(u, g)]_vars

\* a list of two filters, each with another form that is refused
C20_Witness ==
    \E u \in DOMAIN user_filters :
        /\ user_filters[u] = <<FTok, FTwAt>>
        /\ add_filter_result(u, FTokUpper) = "DuplicateFilter"
        /\ add_filter_result(u, FTwBare) = "DuplicateFilter"

\* filters without the element at the 0-based index: what is before it stays
\* in place, what is after it moves one position down
Without(filters, index) ==
    [j \in 1..(Len(filters) - 1) |-> IF j <= index THEN filters[j] ELSE filters[j + 1]]

\* C21: RemoveFilter with an index outside the user's filter list answers
\* IndexOutOfRange and no step that changes the state is such a request; with
\* an index of the list it removes the filter at that position only, the
\* others staying in their order, and saves the list.
C21_RemoveByIndex ==
    [][\A u \in Users : \A index \in -1..MaxListed :
          /\ (index < 0 \/ index >= Len(GetList(user_filters, u))) =>
                /\ remove_filter_result(u, index) = "IndexOutOfRange"
                /\ ~remove_filter(u, index)
          /\ (0 <= index /\ index < Len(GetList(user_filters, u))
                /\ remove_filter(u, index)) =>
                /\ remove_filter_result(u, index) = "Ack"
                /\ user_filters'[u] = Without(user_filters[u], index)
                /\ disk'.filters[u] = user_filters'[u]
                /\ \A v \in DOMAIN user_filters \ {u} :
                      user_filters'[v] = user_filters[v]]_vars

\* the second of three filters was removed: the list holds the other two
\* in their order, and index 2 is now out of range
C21_Witness ==
    \E u \in DOMAIN user_filters :
        /\ user_filters[u] = <<FWal, FTok>>
        /\ disk.filters[u] = <<FWal, FTok>>
        /\ remove_filter_result(u, 2) = "IndexOutOfRange"

\* C22: asked at any instant, get_cached_data returns the data of the
\* entry of the key iff there is one and the instant is strictly before
\* its expiresAt, which is its store time plus the TTL of 30 minutes; with no
\* entry, and at or after expiresAt, it returns None.
C22_CachedIffBeforeExpiry ==
    \A now \in PrimaryInstants \cup {StartTime} :
        IF LatestKey \in DOMAIN token_cache
        THEN /\ token_cache[LatestKey].expiresAt
                    = token_cache[LatestKey].timestamp + 30 * 60 * 1000
             /\ get_cached_data(token_cache, LatestKey, now)
                    = IF now < token_cache[LatestKey].timestamp + 30 * 60 * 1000
                      THEN Some(token_cache[LatestKey].data) ELSE Nothing
        ELSE get_cached_data(token_cache, LatestKey, now) = Nothing

\* the entry stored at the start expires now: get_cached_data returns None,
\* and a call without force_refresh made at this instant has gone to the
\* upstream
C22_Witness ==
    /\ LatestKey \in DOMAIN token_cache
    /\ token_cache[LatestKey].timestamp = StartTime
    /\ clock = token_cache[LatestKey].expiresAt
    /\ get_cached_data(token_cache, LatestKey, clock) = Nothing
    /\ get_cached_data(token_cache, LatestKey, StartTime + 7000)
           = Some(token_cache[LatestKey].data)
    /\ \E c \in DOMAIN calls :
          calls[c].pc = "request" /\ ~calls[c].force /\ calls[c].now = clock

\* C23: a call of fetch_with_retry makes at most 3 attempts; an attempt that
\* returns data ends the call; it sleeps only after a failed attempt that
\* is not the last one, never longer than 20 s, and the next attempt follows
\* the sleep; when the third attempt fails the call returns None to
\* fetch_latest_tokens, which takes its "data is None" branch and not its
\* exception handler.
C23_RetryBound ==
    [][\A c \in Handlers :
          /\ c \in DOMAIN calls' =>
                /\ calls'[c].attempt < 3
                /\ calls'[c].pc = "sleep" =>
                      /\ calls'[c].attempt < 2
                      /\ calls'[c].delay > 0 /\ calls'[c].delay <= 20000
                      /\ calls'[c].wake <= clock + 20000
                      /\ c \in DOMAIN calls /\ calls[c].pc \in {"request", "sleep"}
          /\ (c \in DOMAIN calls /\ calls[c].pc = "sleep" /\ calls'[c].pc # "sleep") =>
                /\ calls'[c].pc = "request"
                /\ calls'[c].attempt = calls[c].attempt + 1
                /\ clock >= calls[c].wake
          /\ \A data \in LatestPayloads :
                AttemptReturns(c, data) => calls'[c].pc = "done"
          /\ \A jitter \in Jitters :
                (AttemptFails(c, jitter) /\ calls[c].attempt = 2) =>
                    /\ calls'[c].pc = "done"
                    /\ calls'[c].path \in {"failed_cache", "failed_mock"}]_vars

\* the third attempt of a call is in flight, two backoffs after its first
C23_Witness ==
    \E c \in DOMAIN calls :
        /\ calls[c].pc = "request"
        /\ calls[c].attempt = 2
        /\ clock >= calls[c].now + 1501 + 3501

\* the return statements of fetch_latest_tokens after a fetch that failed
\* (None from fetch_with_retry), and after a payload without a valid token
FailurePaths == {"failed_cache", "failed_mock"}
NoValidPaths == {"no_valid"}

\* the call of c returns in this step at one of the paths, and its result
\* is the unexpired cache entry when there is one, the placeholder tokens
\* otherwise
CacheBeforePlaceholder(c, paths) ==
    (c \in DOMAIN calls /\ calls[c].pc = "request" /\ calls'[c].pc = "done"
       /\ calls'[c].path \in paths) =>
          calls'[c].result =
              IF TruthyList(get_cached_data(token_cache, LatestKey, clock))
              THEN token_cache[LatestKey].data ELSE MOCK_TOKENS

\* C24: when the fetch fails totally or the payload yields no valid token,
\* fetch_latest_tokens returns the cache entry if there is one, and the
\* placeholder tokens only when there is none.
C24_CacheBeforePlaceholder ==
    [][\A c \in Handlers : CacheBeforePlaceholder(c, FailurePaths \cup NoValidPaths)]_vars

\* the part of C24 about a fetch that failed totally
C24_AfterFailure ==
    [][\A c \in Handlers : CacheBeforePlaceholder(c, FailurePaths)]_vars

\* the return statements of fetch_latest_tokens
LatestPaths == {"rate_limited", "ttl_hit", "live", "no_valid", "failed_cache",
                "failed_mock", "error_cache", "error_mock"}

\* C25: every call of fetch_latest_tokens that has returned, at whichever
\* return statement, has returned a list that is not empty.
C25_NeverEmpty ==
    \A c \in DOMAIN calls :
        (calls[c].fn = "latest" /\ calls[c].pc = "done") =>
            /\ calls[c].path \in LatestPaths
            /\ calls[c].result # <<>>

\* one call has returned the placeholder tokens after its retries were
\* exhausted, another has been answered from the TTL cache
C25_Witness ==
    \E c, d \in DOMAIN calls :
        /\ calls[c].pc = "done" /\ calls[c].path = "failed_mock"
        /\ calls[c].result = MOCK_TOKENS
        /\ calls[d].pc = "done" /\ calls[d].path = "ttl_hit"
        /\ calls[d].result # <<>>

\* the call of c for a threshold returns in this step at one of the paths,
\* and its result is the list cached for that threshold when there is one,
\* the empty list otherwise
CachedOrEmpty(c, paths) ==
    (c \in DOMAIN calls /\ calls[c].pc = "request" /\ calls'[c].pc = "done"
       /\ calls'[c].path \in paths) =>
          calls'[c].result =
              IF cache_key(calls[c].min_followers) \in DOMAIN believe_token_cache
              THEN believe_token_cache[cache_key(calls[c].min_followers)]
              ELSE <<>>

\* C26: when the fetch of the signal feed for a threshold fails (the request
\* raises, or the body is not a list of records), fetch_believe_tokens
\* returns the list cached for that threshold if there is one and the empty
\* list otherwise: never the placeholder tokens, never the list of another
\* threshold.
C26_CachedOrEmpty ==
    [][\A c \in BelieveCallers : CachedOrEmpty(c, {"failed", "no_data"})]_vars

\* the part of C26 about a request or a record that raises
C26_AfterException ==
    [][\A c \in BelieveCallers : CachedOrEmpty(c, {"failed"})]_vars

\* C27: a call of fetch_believe_tokens without force_refresh is answered
\* from the cache only if a live fetch for its own threshold has succeeded
\* less than 4 s earlier; the fetches for other thresholds do not count.
C27_WindowPerThreshold ==
    [][\A c \in BelieveCallers : \A min_followers \in Thresholds :
          (CallBelieve(c, min_followers, FALSE) /\ calls'[c].pc = "done") =>
              /\ cache_key(min_followers) \in DOMAIN believe_fetched
              /\ clock - believe_fetched[cache_key(min_followers)]
                    < 4000]_vars

\* C28: whatever the interleaving of the calls of fetch_latest_tokens
\* without force_refresh, a live request of such a call goes out at least
\* 1.5 s after the one before it.
C28_OneLiveRequestPerWindow ==
    [][last_request' # last_request =>
          last_request'.at - last_request.at >= 1500]_vars

\* the return statements that answer an upstream failure: of
\* fetch_latest_tokens after the retries are exhausted, after an unexpected
\* error and for a payload without a valid token, of fetch_believe_tokens
\* after an exception and for a payload that is not a list
FeedFailurePaths == {"failed_cache", "failed_mock", "error_cache", "error_mock",
                     "no_valid", "failed", "no_data"}

\* the task takes the result of a call that ended on one of the paths
TakesFailure(t, paths) ==
    /\ t \in DOMAIN calls
    /\ calls[t].pc = "done"
    /\ calls[t].path \in paths
    /\ t \notin DOMAIN calls'

\* the tokens a call can return
FeedTokens == {TokA1, TokB1, TokB2} \cup {MOCK_TOKENS[i] : i \in 1..Len(MOCK_TOKENS)}

\* C29: a call of a source client that meets an upstream failure returns a
\* list of tokens, and the tick that takes this list goes on to the next
\* fetch or through the matching section with its session still running.
C29_FailureKeepsRunning ==
    [][\A t \in TaskIds :
          TakesFailure(t, FeedFailurePaths) =>
             /\ calls[t].result \in SeqsUpTo(FeedTokens, 2)
             /\ t \in DOMAIN tasks'
             /\ tasks'[t].pc \in {"believe", "send", "sleep"}
             /\ polling_tasks' = polling_tasks]_vars

\* the failure itself is absorbed: such a tick leaves the session running
\* unless the matcher raises on a token of the tick
C29_AbsorbedAtBoundary ==
    [][\A t \in TaskIds :
          TakesFailure(t, FeedFailurePaths) =>
             /\ calls[t].result \in SeqsUpTo(FeedTokens, 2)
             /\ t \in DOMAIN tasks'
             /\ \/ tasks'[t].pc \in {"believe", "send", "sleep"}
                \/ TrackTokens(tasks[t].user, tasks[t].seen,
                               tasks[t].all_tokens \o calls[t].result).raised
             /\ polling_tasks' = polling_tasks]_vars

\* the candidates refresh_callback hands to process_new_tokens
CallbackCandidates(user_id) ==
    {ExtendBelieve(IF SelectSeq(user_filters[user_id], IsOther) # <<>>
                   THEN solana_tokens ELSE <<>>,
                   user_filters[user_id], believe_tokens, 1) :
        solana_tokens \in PrimaryBatches, believe_tokens \in BelieveBatches} \ {<<>>}

\* the candidates that satisfy some filter of the user and whose address is
\* not among the matched tokens
NewMatching(user_id, tokens) ==
    LET existing == ExistingAddresses(GetList(user_matched_tokens, user_id))
        Keep(token) == /\ ~AlreadyMatched(token, existing)
                       /\ Satisfied(token, user_filters[user_id]) # {}
    IN  SelectSeq(tokens, Keep)

\* process_new_tokens returns the matches of exactly the candidates of
\* NewMatching, in their order, and appends exactly these to the matched
\* tokens
ReturnsNewMatching(user_id, tokens) ==
    LET st == process_new_tokens(user_id, tokens) IN
    /\ ~st.raised
    /\ [i \in 1..Len(st.new_matches) |-> st.new_matches[i].token]
          = NewMatching(user_id, tokens)
    /\ st.um[user_id] = GetList(user_matched_tokens, user_id)
                           \o NewMatching(user_id, tokens)

\* the scenario of the claim: the filter token "pump", the feed [A1, A2]
\* with A1 = PUMP and A2 = X, A1 not matched before
PumpScenario(user_id) ==
    (user_filters[user_id] = <<FTok>>
        /\ A1 \notin ExistingAddresses(GetList(user_matched_tokens, user_id))) =>
       LET st == process_new_tokens(user_id, <<TokA1, TokA2>>) IN
       /\ st.new_matches = <<Entry(TokA1, FTok)>>
       /\ Len(st.um[user_id]) = Len(GetList(user_matched_tokens, user_id)) + 1

\* C30 as stated: for every user with filters and every list of candidates
\* a manual refresh can fetch, process_new_tokens returns exactly the
\* candidates that match some filter and whose address was not among the
\* matched tokens before the call, and appends exactly those; in the
\* scenario it returns A1 only and the matched tokens grow by one.
C30_ReturnsNewMatches ==
    \A u \in DOMAIN user_filters :
        user_filters[u] # <<>> =>
            /\ \A tokens \in PrimaryBatches \cup CallbackCandidates(u) :
                  ReturnsNewMatching(u, tokens)
            /\ PumpScenario(u)

\* the same for the candidates of /refresh, which come from the primary feed
C30_FromPrimaryFeed ==
    \A u \in DOMAIN user_filters :
        user_filters[u] # <<>> =>
            /\ \A tokens \in PrimaryBatches : ReturnsNewMatching(u, tokens)
            /\ PumpScenario(u)

\* the send_message of the tick's notification of task t returns or raises
LeavesSend(t) ==
    /\ t \in DOMAIN tasks'
    /\ tasks[t].pc = "send"
    /\ ~tasks[t].cancel
    /\ tasks'[t].pc # "send"

\* C31 as stated: whether the delivery of a tick's notification succeeds or
\* fails, the batch is not sent again and the session goes on to the sleep
\* before its next tick.
C31_DeliveryFailureKeepsRunning ==
    [][\A t \in TaskIds :
          LeavesSend(t) => tasks'[t].pc = "sleep" /\ tasks'[t].msgs = <<>>]_vars

\* the batch of a failed delivery is not sent again: the session drops it
\* and sends its error notification only
C31_NoRetry ==
    [][\A t \in TaskIds :
          LeavesSend(t) =>
             /\ tasks'[t].msgs = <<>>
             /\ tasks'[t].notified = tasks[t].notified
             /\ tasks'[t].pc \in {"sleep", "faulted"}]_vars

IsPrefix(a, b) == Len(a) <= Len(b) /\ SubSeq(b, 1, Len(a)) = a

\* C32: every step of the sessions and of /start, the filter requests,
\* ManualRefresh and ClearMatches leaves the match history of every user,
\* in memory and as saved, a list that begins with the history before it.
C32_HistoryAppendOnly ==
    [][/\ \A u \in DOMAIN user_match_history :
             /\ u \in DOMAIN user_match_history'
             /\ IsPrefix(user_match_history[u], user_match_history'[u])
       /\ \A u \in DOMAIN disk.history :
             /\ u \in DOMAIN disk'.history
             /\ IsPrefix(disk.history[u], disk'.history[u])]_vars

\* ClearMatches has emptied the matched tokens of a user whose history holds
\* two records
C32_Witness ==
    \E u \in DOMAIN user_match_history :
        /\ Len(user_match_history[u]) = 2
        /\ u \in DOMAIN user_matched_tokens
        /\ user_matched_tokens[u] = <<>>
        /\ GetList(disk.history, u) = user_match_history[u]

\* less than 1.5 s since the last recorded fetch, with a cached response
InRateWindow == clock - last_fetch_time < 1500 /\ cached_response.has
                   /\ cached_response.data # <<>>

\* an entry of the TTL cache for latest-tokens that has not expired
HasLiveEntry ==
    /\ LatestKey \in DOMAIN token_cache
    /\ clock < token_cache[LatestKey].expiresAt
    /\ token_cache[LatestKey].data # <<>>

\* C33: in every state, a call of fetch_latest_tokens without force_refresh
\* made in the rate window or with a live TTL entry returns without a
\* request, and a call with force_refresh sends its request whatever the
\* state of the two.
C33_ChecksGateUnforcedOnly ==
    \A c \in Handlers \ DOMAIN calls :
        /\ (InRateWindow \/ HasLiveEntry) =>
              ~ENABLED (CallLatest(c, FALSE) /\ calls'[c].pc # "done")
        /\ ~ENABLED (CallLatest(c, TRUE) /\ calls'[c].pc # "request")
        /\ ENABLED (CallLatest(c, TRUE) /\ calls'[c].pc = "request")
        /\ ENABLED CallLatest(c, FALSE)

\* a call with force_refresh has sent its request in the rate window and
\* with a live TTL entry, both left by the call before it
C33_Witness ==
    /\ InRateWindow
    /\ HasLiveEntry
    /\ \E c \in DOMAIN calls : calls[c].pc = "request" /\ calls[c].force
                                  /\ calls[c].now = clock
    /\ \E c \in DOMAIN calls : calls[c].pc = "done" /\ calls[c].path = "live"

\* C34 as stated: no step of the calls of fetch_latest_tokens lowers
\* last_fetch_time, and none replaces cached_response by the result of a
\* call that started before the call whose result it holds (last_fetch_time
\* is the start of that call: the two are written together).
C34_NoOlderOverwrite ==
    [][/\ last_fetch_time' >= last_fetch_time
       /\ cached_response' # cached_response => last_fetch_time' >= last_fetch_time]_vars

\* check_token_match(token, [filter1]) finds a match iff
\* check_token_match(token, [filter2]) does
SameMatches(filter1, filter2) ==
    \A token \in PrimaryTokens \cup BelieveTokens \cup LinkedTokens :
        (check_token_match(token, <<filter1>>).kind = "match")
            = (check_token_match(token, <<filter2>>).kind = "match")

\* C35 as stated: a filter of a user's list and any filter equal to it by
\* are_filters_equal match the same tokens.
C35_EqualFiltersMatchAlike ==
    \A u \in DOMAIN user_filters : \A i \in 1..Len(user_filters[u]) :
        \A filter2 \in FilterForms :
            are_filters_equal(user_filters[u][i], filter2)
                => SameMatches(user_filters[u][i], filter2)

\* the same for the filters that are not website filters
C35_OtherKindsMatchAlike ==
    \A u \in DOMAIN user_filters : \A i \in 1..Len(user_filters[u]) :
        \A filter2 \in FilterForms :
            (user_filters[u][i].type # "website"
                /\ are_filters_equal(user_filters[u][i], filter2))
                => SameMatches(user_filters[u][i], filter2)

\* C36 as stated: a record of the match history that attributes a token of
\* the signal feed to a believe filter names a filter whose threshold the
\* token passes, that is, one whose fetch can have returned it.
C36_AttributedToItsThreshold ==
    \A u \in DOMAIN user_match_history : \A i \in 1..Len(user_match_history[u]) :
        (user_match_history[u][i].filter.type = "believe"
            /\ user_match_history[u][i].token.source = "believe")
        => IntOf(user_match_history[u][i].filter.value)
              <= followers_count(user_match_history[u][i].token)

Ended(key) == key \in DOMAIN polling_tasks /\ tasks[polling_tasks[key]].pc = "done"

\* C39: while the session of a key has ended and the user has filters,
\* StartTracking for the key is accepted; the task a key gets is a new one
\* that has seen and announced nothing, and it replaces only a task that is
\* done; a tick of a session that meets an address for the first time
\* which the matched tokens already hold announces it once and adds no
\* matched token for it.
C39_RestartStartsFresh ==
    [][/\ \A u \in Users :
             (Ended(get_tracking_key(u, "c1")) /\ ~HasNoFilters(u))
                => start_tracking_result(u, "c1") = "Ack"
       /\ \A key \in DOMAIN polling_tasks' :
             (key \notin DOMAIN polling_tasks \/ polling_tasks'[key] # polling_tasks[key])
                => /\ tasks'[polling_tasks'[key]] = NewTask(key[1], key[2])
                   /\ key \in DOMAIN polling_tasks => Ended(key)
       /\ \A t \in TaskIds \cap DOMAIN tasks' : \A address \in AllAddresses :
             (address \in tasks'[t].seen \ tasks[t].seen
                 /\ MatchedCount(tasks[t].user, address) > 0
                 /\ tasks'[t].pc \in {"send", "sleep"})
                => /\ Listed(tasks'[t].msgs, address) = 1
                   /\ MatchedCount(tasks[t].user, address)'
                         = MatchedCount(tasks[t].user, address)]_vars

\* a session is sending the notification of B1, the only address it has
\* seen, while the matched tokens hold B1 and, recorded after it, B2: an
\* earlier session of the chat recorded both
C39_Witness ==
    \E t \in TaskIds :
        /\ tasks[t].pc = "send"
        /\ tasks[t].msgs = << <<B1>> >>
        /\ tasks[t].seen = {B1}
        /\ user_matched_tokens[tasks[t].user] = <<TokB1, TokB2>>

\* the list holds a placeholder token
Placeholder(tokens) ==
    \E i \in 1..Len(tokens) : \E j \in 1..Len(MOCK_TOKENS) : tokens[i] = MOCK_TOKENS[j]

CachePaths == {"rate_limited", "ttl_hit", "failed_cache", "error_cache"}

\* C38: neither the TTL entry latest-tokens nor cached_response holds a
\* placeholder token, and no call of fetch_latest_tokens answered from the
\* cache returns one.
C38_NoPlaceholderCached ==
    /\ LatestKey \in DOMAIN token_cache => ~Placeholder(token_cache[LatestKey].data)
    /\ ~Placeholder(cached_response.data)
    /\ \A c \in DOMAIN calls :
          (calls[c].fn = "latest" /\ calls[c].pc = "done" /\ calls[c].path \in CachePaths)
             => ~Placeholder(calls[c].result)

\* C40: no step of /start or AddFilter after a restart removes a filter
\* from the persisted filter list of a user.
C40_PersistedFiltersKept ==
    [][\A u \in DOMAIN disk.filters :
          /\ u \in DOMAIN disk'.filters
          /\ \A i \in 1..Len(disk.filters[u]) :
                \E j \in 1..Len(disk'.filters[u]) :
                    disk'.filters[u][j] = disk.filters[u][i]]_vars
====
